---- MODULE Spec2Model ----
\* Model of the ring buffer of src/ring/ring.c (RingBuffer_t and the
\* RingBuffer_* operations) with the ThreadX mutex critical sections it uses.
EXTENDS Integers, Sequences, FiniteSets, TLC

\* ------------------------------------------------------------------ bounds
\* Largest capacity (rb->size) of the two rings that transfer to each other.
MaxSize == 2
\* Largest capacity of a ring used on its own.
MaxCap == 3
\* Element values written by callers are 1..MaxVal.
MaxVal == 2
\* Longest data array handed to the batch operations.
MaxBatch == 2
\* Number of accepted writes recorded in the history of written elements.
MaxLog == 4
\* Calls the producer and the consumer each make.
MaxCalls == 3
\* Calls each context makes where every context both writes and reads.
MaxRace == 2

\* ------------------------------------------------------------- basic values
NULL == "NULL"
\* Content of a slot of the caller's storage that was never written.
Junk == 0
Val == 1..MaxVal
\* uint32_t arithmetic wraps; the word is scaled to 16 bits so that the
\* wrapped values stay inside the integers TLC can represent.
UINT_MOD == 2^16
U32(x) == x % UINT_MOD

\* The two ring instances and the execution contexts that call into them.
Ring == {"A", "B"}
Task == {"T1", "T2"}
Isr == "ISR"
Ctx == Task \cup {Isr}
Main == "T1"

\* The ThreadX mutex object (TX_MUTEX) a ring's mutex field may point to:
\* one object per ring, attached or not.
MutexOf(r) == r

TX_SUCCESS == "TX_SUCCESS"
TX_CALLER_ERROR == "TX_CALLER_ERROR"
TX_NOT_OWNED == "TX_NOT_OWNED"
NoOwner == "none"

\* static mutex_callbacks_t *cs_callbacks = NULL;
\* static volatile bool RTOS_READY = false;
\* created: the mutexes the provider has created and not destroyed;
\* cb: the provider callback the last utilities_mutex_* call invoked.
Reg0 == [cs_callbacks |-> NULL, RTOS_READY |-> FALSE, created |-> {}, cb |-> "none"]

VARIABLES
  rb,       \* [Ring -> RingBuffer_t]
  mtx,      \* [Ring -> [owner, cnt]]: the TX_MUTEX objects
  primask,  \* interrupt mask of the core: 0 = interrupts enabled
  reg,      \* common.c: cs_callbacks, RTOS_READY, and the provider's mutexes
  ret,      \* the last call: [op, ring, val, out]
  wlog,     \* elements accepted by ring A so far, in order
  rlog,     \* elements returned by reads of ring A so far, in order
  pc,       \* [Ctx -> position inside the call in progress]
  loc       \* [Ctx -> the locals of the call in progress]

vars == <<rb, mtx, primask, reg, ret, wlog, rlog, pc, loc>>

\* ------------------------------------------------------------ ring record
\* buffer[i + 1] is the element slot at index i of rb->buffer.
Slot(ring, pos) == ring.buffer[pos + 1]
SetSlot(buf, pos, v) == [buf EXCEPT ![pos + 1] = v]

Min(a, b) == IF a < b THEN a ELSE b

\* void RingBuffer_Init(rb, buffer, size, element_size)
RingBuffer_Init(buffer, size, element_size) ==
  [buffer |-> buffer, mutex |-> NULL, head |-> 0, tail |-> 0, size |-> size,
   count |-> 0, element_size |-> element_size, owns_buffer |-> FALSE]

\* Mutant of RingBuffer_InitDynamic: the structure is filled in before the
\* allocation is known to have succeeded.
InitDynamic_FillsBeforeMalloc(rbs, r, size, element_size, block) ==
  IF r = NULL \/ size = 0 \/ element_size = 0
    THEN [rb |-> rbs, ret |-> FALSE, malloc |-> FALSE]
    ELSE [rb |-> [rbs EXCEPT ![r] =
                    [buffer |-> block, mutex |-> NULL, head |-> 0, tail |-> 0,
                     size |-> size, count |-> 0, element_size |-> element_size,
                     owns_buffer |-> TRUE]],
          ret |-> block # NULL, malloc |-> TRUE]

\* bool RingBuffer_InitDynamic(rb, size, element_size); block is what malloc
\* returns when it is called: NULL or a block that was not allocated.
RingBuffer_InitDynamic(rbs, r, size, element_size, block) ==
  IF r = NULL \/ size = 0 \/ element_size = 0
    THEN [rb |-> rbs, ret |-> FALSE, malloc |-> FALSE]
  ELSE IF block = NULL THEN [rb |-> rbs, ret |-> FALSE, malloc |-> TRUE]
  ELSE [rb |-> [rbs EXCEPT ![r] =
                  [buffer |-> block, mutex |-> NULL, head |-> 0, tail |-> 0,
                   size |-> size, count |-> 0, element_size |-> element_size,
                   owns_buffer |-> TRUE]],
        ret |-> TRUE, malloc |-> TRUE]

\* The structure RingBuffer_Destroy leaves behind.
Inert ==
  [buffer |-> NULL, mutex |-> NULL, head |-> 0, tail |-> 0, size |-> 0,
   count |-> 0, element_size |-> 0, owns_buffer |-> FALSE]

\* Mutant of RingBuffer_Destroy: the storage is released whoever owns it.
Destroy_FreesAnyBuffer(rbs, r) ==
  IF r = NULL THEN [rb |-> rbs, freed |-> NULL]
  ELSE [rb |-> [rbs EXCEPT ![r] = Inert], freed |-> rbs[r].buffer]

\* Mutant of RingBuffer_Destroy: count is left as it was.
Destroy_KeepsCount(rbs, r) ==
  IF r = NULL THEN [rb |-> rbs, freed |-> NULL]
  ELSE [rb |-> [rbs EXCEPT ![r] = [Inert EXCEPT !.count = rbs[r].count]],
        freed |-> IF rbs[r].owns_buffer /\ rbs[r].buffer # NULL
                  THEN rbs[r].buffer ELSE NULL]

\* void RingBuffer_Destroy(rb); freed is the pointer handed to free(), NULL
\* when free() is not called.
RingBuffer_Destroy(rbs, r) ==
  IF r = NULL THEN [rb |-> rbs, freed |-> NULL]
  ELSE [rb |-> [rbs EXCEPT ![r] = Inert],
        freed |-> IF rbs[r].owns_buffer /\ rbs[r].buffer # NULL
                  THEN rbs[r].buffer ELSE NULL]

\* bool RingBuffer_OwnsBuffer(rb)
RingBuffer_OwnsBuffer(rbs, r) == IF r = NULL THEN FALSE ELSE rbs[r].owns_buffer

RingBuffer_IsEmpty(ring) == ring.count = 0

\* Mutants of RingBuffer_IsFull: a wrong comparison, and the design that
\* keeps one slot unused.
IsFull_WrongCompare(ring) == ring.count > ring.size
IsFull_KeepsOneSlot(ring) == ring.count + 1 >= ring.size

RingBuffer_IsFull(ring) == ring.count = ring.size

RingBuffer_Available(rbs, r) ==
  IF r = NULL THEN 0
  ELSE IF rbs[r].count > rbs[r].size THEN 0
  ELSE rbs[r].count

RingBuffer_Free(rbs, r) ==
  IF r = NULL THEN 0
  ELSE IF rbs[r].count > rbs[r].size THEN 0
  ELSE rbs[r].size - rbs[r].count

\* Result of one call on the rings rbs: the rings afterwards, the return
\* value, the elements copied out to the caller, and whether the call reached
\* its critical section. A ring argument r is a ring or the NULL pointer.
Result(rbs, val, out, cs) == [rb |-> rbs, ret |-> val, out |-> out, cs |-> cs]
Upd(rbs, r, ring) == [rbs EXCEPT ![r] = ring]

\* bool RingBuffer_Write(rb, data)
RingBuffer_Write(rbs, r, data) ==
  LET ring == rbs[r]
  IN IF RingBuffer_IsFull(ring) THEN Result(rbs, FALSE, <<>>, FALSE)
     ELSE Result(Upd(rbs, r,
                     [ring EXCEPT !.buffer = SetSlot(ring.buffer, ring.head, data),
                                  !.head = (ring.head + 1) % ring.size,
                                  !.count = U32(ring.count + 1)]),
                 TRUE, <<>>, TRUE)

\* Mutant of RingBuffer_PushFront: a full ring keeps its tail.
PushFront_KeepsTail(rbs, r, data) ==
  IF r = NULL THEN Result(rbs, FALSE, <<>>, FALSE)
  ELSE LET ring == rbs[r]
           was_full == RingBuffer_IsFull(ring)
           buf == SetSlot(ring.buffer, ring.head, data)
           hd == (ring.head + 1) % ring.size
       IN IF was_full
          THEN Result(Upd(rbs, r, [ring EXCEPT !.buffer = buf, !.head = hd]),
                      TRUE, <<>>, TRUE)
          ELSE Result(Upd(rbs, r, [ring EXCEPT !.buffer = buf, !.head = hd,
                                               !.count = U32(ring.count + 1)]),
                      TRUE, <<>>, TRUE)

\* bool RingBuffer_PushFront(rb, data)
RingBuffer_PushFront(rbs, r, data) ==
  IF r = NULL THEN Result(rbs, FALSE, <<>>, FALSE)
  ELSE LET ring == rbs[r]
           was_full == RingBuffer_IsFull(ring)
           buf == SetSlot(ring.buffer, ring.head, data)
           hd == (ring.head + 1) % ring.size
       IN IF was_full
          THEN Result(Upd(rbs, r, [ring EXCEPT !.buffer = buf, !.head = hd,
                                               !.tail = (ring.tail + 1) % ring.size]),
                      TRUE, <<>>, TRUE)
          ELSE Result(Upd(rbs, r, [ring EXCEPT !.buffer = buf, !.head = hd,
                                               !.count = U32(ring.count + 1)]),
                      TRUE, <<>>, TRUE)

\* Mutant of RingBuffer_Read: copies the newest element instead of the oldest.
Read_FromHead(rbs, r) ==
  IF r = NULL THEN Result(rbs, FALSE, <<>>, FALSE)
  ELSE IF RingBuffer_IsEmpty(rbs[r]) THEN Result(rbs, FALSE, <<>>, FALSE)
  ELSE LET ring == rbs[r]
       IN Result(Upd(rbs, r, [ring EXCEPT !.tail = (ring.tail + 1) % ring.size,
                                          !.count = U32(ring.count - 1)]),
                 TRUE, <<Slot(ring, (ring.head + ring.size - 1) % ring.size)>>, TRUE)

\* bool RingBuffer_Read(rb, data)
RingBuffer_Read(rbs, r) ==
  IF r = NULL THEN Result(rbs, FALSE, <<>>, FALSE)
  ELSE IF RingBuffer_IsEmpty(rbs[r]) THEN Result(rbs, FALSE, <<>>, FALSE)
  ELSE LET ring == rbs[r]
       IN Result(Upd(rbs, r, [ring EXCEPT !.tail = (ring.tail + 1) % ring.size,
                                          !.count = U32(ring.count - 1)]),
                 TRUE, <<Slot(ring, ring.tail)>>, TRUE)

\* bool RingBuffer_PeekFront(const rb, data); out is what memcpy stored in
\* data, empty when nothing was stored.
RingBuffer_PeekFront(rbs, r) ==
  IF r = NULL THEN [ret |-> FALSE, out |-> <<>>]
  ELSE IF RingBuffer_IsEmpty(rbs[r]) THEN [ret |-> FALSE, out |-> <<>>]
  ELSE LET pos == rbs[r].tail
       IN [ret |-> TRUE, out |-> <<Slot(rbs[r], pos)>>]

\* Mutant of RingBuffer_PeekBack: the slot at head is read.
PeekBack_AtHead(rbs, r) ==
  IF r = NULL THEN [ret |-> FALSE, out |-> <<>>]
  ELSE IF RingBuffer_IsEmpty(rbs[r]) THEN [ret |-> FALSE, out |-> <<>>]
  ELSE [ret |-> TRUE, out |-> <<Slot(rbs[r], rbs[r].head)>>]

\* bool RingBuffer_PeekBack(const rb, data)
RingBuffer_PeekBack(rbs, r) ==
  IF r = NULL THEN [ret |-> FALSE, out |-> <<>>]
  ELSE IF RingBuffer_IsEmpty(rbs[r]) THEN [ret |-> FALSE, out |-> <<>>]
  ELSE LET pos == IF rbs[r].head = 0 THEN rbs[r].size - 1 ELSE rbs[r].head - 1
       IN [ret |-> TRUE, out |-> <<Slot(rbs[r], pos)>>]

\* Mutant of RingBuffer_PeekBackMultiple: the newest elements are returned
\* oldest first.
PeekBackMultiple_OldestFirst(rbs, r, dataOk, n) ==
  IF r = NULL \/ ~dataOk \/ n = 0 THEN [ret |-> 0, out |-> <<>>]
  ELSE IF RingBuffer_IsEmpty(rbs[r]) THEN [ret |-> 0, out |-> <<>>]
  ELSE LET ring == rbs[r]
           available == RingBuffer_Available(rbs, r)
           count == IF n > available THEN available ELSE n
       IN [ret |-> count,
           out |-> [j \in 1..count |->
                      Slot(ring, (ring.head + 2 * ring.size - 1 - (count - j)) % ring.size)]]

\* uint32_t RingBuffer_PeekBackMultiple(const rb, data, count); out[i + 1] is
\* what iteration i of the loop stores at data + i * element_size.
RingBuffer_PeekBackMultiple(rbs, r, dataOk, n) ==
  IF r = NULL \/ ~dataOk \/ n = 0 THEN [ret |-> 0, out |-> <<>>]
  ELSE IF RingBuffer_IsEmpty(rbs[r]) THEN [ret |-> 0, out |-> <<>>]
  ELSE LET ring == rbs[r]
           available == RingBuffer_Available(rbs, r)
           count == IF n > available THEN available ELSE n
           pos0 == (IF ring.head = 0 THEN ring.size ELSE ring.head) - 1
       IN [ret |-> count,
           out |-> [j \in 1..count |->
                      Slot(ring, (pos0 + ring.size - (j - 1)) % ring.size)]]

\* uint32_t RingBuffer_PeekFrontMultiple(const rb, data, count)
RingBuffer_PeekFrontMultiple(rbs, r, dataOk, n) ==
  IF r = NULL \/ ~dataOk \/ n = 0 THEN [ret |-> 0, out |-> <<>>]
  ELSE IF RingBuffer_IsEmpty(rbs[r]) THEN [ret |-> 0, out |-> <<>>]
  ELSE LET ring == rbs[r]
           available == RingBuffer_Available(rbs, r)
           count == IF n > available THEN available ELSE n
       IN [ret |-> count,
           out |-> [j \in 1..count |-> Slot(ring, (ring.tail + (j - 1)) % ring.size)]]

\* Mutant of Memcpy: the copy always starts at the first element of src.
Memcpy_SourceRestarts(dst, dpos, src, spos, n) ==
  [i \in DOMAIN dst |->
     IF dpos + 1 <= i /\ i <= dpos + n THEN src[i - dpos] ELSE dst[i]]

\* memcpy of n whole elements from src (a sequence, starting at index spos)
\* into the slots dpos .. dpos + n - 1 of dst.
Memcpy(dst, dpos, src, spos, n) ==
  [i \in DOMAIN dst |->
     IF dpos + 1 <= i /\ i <= dpos + n THEN src[spos + (i - dpos)] ELSE dst[i]]

\* The for loop of RingBuffer_PushBackOverwriteMultiple from iteration i on;
\* st holds the locals buffer, head, tail, current_count, overwritten.
RECURSIVE PushBackLoop(_, _, _, _)
PushBackLoop(size, st, data, i) ==
  IF i >= Len(data) THEN st
  ELSE LET buf == SetSlot(st.buffer, st.head, data[i + 1])
           hd == (st.head + 1) % size
       IN IF st.current_count = size
          THEN PushBackLoop(size, [st EXCEPT !.buffer = buf, !.head = hd,
                                             !.tail = (st.tail + 1) % size,
                                             !.overwritten = U32(st.overwritten + 1)],
                            data, i + 1)
          ELSE PushBackLoop(size, [st EXCEPT !.buffer = buf, !.head = hd,
                                             !.current_count = U32(st.current_count + 1)],
                            data, i + 1)

\* Mutant of RingBuffer_PushBackOverwriteMultiple: no more elements than the
\* ring has slots are written.
OverwriteMultiple_ClampsToSize(rbs, r, dataOk, data) ==
  IF r = NULL \/ ~dataOk \/ Len(data) = 0 THEN Result(rbs, 0, <<>>, FALSE)
  ELSE LET ring == rbs[r]
           elements_to_write == Min(Len(data), ring.size)
           st == PushBackLoop(ring.size,
                              [buffer |-> ring.buffer, head |-> ring.head,
                               tail |-> ring.tail, current_count |-> ring.count,
                               overwritten |-> 0],
                              SubSeq(data, 1, elements_to_write), 0)
       IN Result(Upd(rbs, r, [ring EXCEPT !.buffer = st.buffer, !.head = st.head,
                                          !.tail = st.tail, !.count = st.current_count]),
                 elements_to_write, <<>>, TRUE)

\* uint32_t RingBuffer_PushBackOverwriteMultiple(rb, data, count): the data
\* pointer is NULL when dataOk is FALSE, count is Len(data).
RingBuffer_PushBackOverwriteMultiple(rbs, r, dataOk, data) ==
  IF r = NULL \/ ~dataOk \/ Len(data) = 0 THEN Result(rbs, 0, <<>>, FALSE)
  ELSE LET ring == rbs[r]
           st == PushBackLoop(ring.size,
                              [buffer |-> ring.buffer, head |-> ring.head,
                               tail |-> ring.tail, current_count |-> ring.count,
                               overwritten |-> 0],
                              data, 0)
       IN Result(Upd(rbs, r, [ring EXCEPT !.buffer = st.buffer, !.head = st.head,
                                          !.tail = st.tail, !.count = st.current_count]),
                 Len(data), <<>>, TRUE)

\* Mutant of RingBuffer_WriteMultiple: head advances by the requested count,
\* not by the number of elements written.
WriteMultiple_HeadByRequest(rbs, r, dataOk, data) ==
  IF r = NULL \/ ~dataOk \/ Len(data) = 0 THEN Result(rbs, 0, <<>>, FALSE)
  ELSE LET ring == rbs[r]
           free_slots == RingBuffer_Free(rbs, r)
           elements_to_write == IF Len(data) > free_slots THEN free_slots ELSE Len(data)
           head == ring.head
           first_chunk == Min(ring.size - head, elements_to_write)
           second_chunk == elements_to_write - first_chunk
           buf1 == Memcpy(ring.buffer, head, data, 0, first_chunk)
           buf2 == IF second_chunk > 0
                   THEN Memcpy(buf1, 0, data, first_chunk, second_chunk)
                   ELSE buf1
       IN IF elements_to_write = 0 THEN Result(rbs, 0, <<>>, FALSE)
          ELSE Result(Upd(rbs, r,
                          [ring EXCEPT !.buffer = buf2,
                                       !.head = (head + Len(data)) % ring.size,
                                       !.count = U32(ring.count + elements_to_write)]),
                      elements_to_write, <<>>, TRUE)

\* Mutant of RingBuffer_WriteMultiple: the chunk that wraps to the start of
\* the storage is not copied.
WriteMultiple_NoSecondChunk(rbs, r, dataOk, data) ==
  IF r = NULL \/ ~dataOk \/ Len(data) = 0 THEN Result(rbs, 0, <<>>, FALSE)
  ELSE LET ring == rbs[r]
           free_slots == RingBuffer_Free(rbs, r)
           elements_to_write == IF Len(data) > free_slots THEN free_slots ELSE Len(data)
           head == ring.head
           first_chunk == Min(ring.size - head, elements_to_write)
           buf1 == Memcpy(ring.buffer, head, data, 0, first_chunk)
       IN IF elements_to_write = 0 THEN Result(rbs, 0, <<>>, FALSE)
          ELSE Result(Upd(rbs, r,
                          [ring EXCEPT !.buffer = buf1,
                                       !.head = (head + elements_to_write) % ring.size,
                                       !.count = U32(ring.count + elements_to_write)]),
                      elements_to_write, <<>>, TRUE)

\* uint32_t RingBuffer_WriteMultiple(rb, data, count)
RingBuffer_WriteMultiple(rbs, r, dataOk, data) ==
  IF r = NULL \/ ~dataOk \/ Len(data) = 0 THEN Result(rbs, 0, <<>>, FALSE)
  ELSE LET ring == rbs[r]
           free_slots == RingBuffer_Free(rbs, r)
           elements_to_write == IF Len(data) > free_slots THEN free_slots ELSE Len(data)
           head == ring.head
           first_chunk == Min(ring.size - head, elements_to_write)
           second_chunk == elements_to_write - first_chunk
           buf1 == Memcpy(ring.buffer, head, data, 0, first_chunk)
           buf2 == IF second_chunk > 0
                   THEN Memcpy(buf1, 0, data, first_chunk, second_chunk)
                   ELSE buf1
       IN IF elements_to_write = 0 THEN Result(rbs, 0, <<>>, FALSE)
          ELSE Result(Upd(rbs, r,
                          [ring EXCEPT !.buffer = buf2,
                                       !.head = (head + elements_to_write) % ring.size,
                                       !.count = U32(ring.count + elements_to_write)]),
                      elements_to_write, <<>>, TRUE)

\* Mutant of RingBuffer_ReadMultiple: tail advances by the requested count,
\* not by the number of elements read.
ReadMultiple_TailByRequest(rbs, r, dataOk, n) ==
  IF r = NULL \/ ~dataOk \/ n = 0 THEN Result(rbs, 0, <<>>, FALSE)
  ELSE LET ring == rbs[r]
           available == RingBuffer_Available(rbs, r)
           elements_to_read == IF n > available THEN available ELSE n
           tail == ring.tail
           first_chunk == Min(ring.size - tail, elements_to_read)
           second_chunk == elements_to_read - first_chunk
           out1 == [i \in 1..first_chunk |-> ring.buffer[tail + i]]
           out2 == [i \in 1..second_chunk |-> ring.buffer[i]]
       IN IF elements_to_read = 0 THEN Result(rbs, 0, <<>>, FALSE)
          ELSE Result(Upd(rbs, r,
                          [ring EXCEPT !.tail = (tail + n) % ring.size,
                                       !.count = U32(ring.count - elements_to_read)]),
                      elements_to_read, out1 \o out2, TRUE)

\* uint32_t RingBuffer_ReadMultiple(rb, data, count): the caller's array has
\* room for n elements.
RingBuffer_ReadMultiple(rbs, r, dataOk, n) ==
  IF r = NULL \/ ~dataOk \/ n = 0 THEN Result(rbs, 0, <<>>, FALSE)
  ELSE LET ring == rbs[r]
           available == RingBuffer_Available(rbs, r)
           elements_to_read == IF n > available THEN available ELSE n
           tail == ring.tail
           first_chunk == Min(ring.size - tail, elements_to_read)
           second_chunk == elements_to_read - first_chunk
           out1 == [i \in 1..first_chunk |-> ring.buffer[tail + i]]
           out2 == [i \in 1..second_chunk |-> ring.buffer[i]]
       IN IF elements_to_read = 0 THEN Result(rbs, 0, <<>>, FALSE)
          ELSE Result(Upd(rbs, r,
                          [ring EXCEPT !.tail = (tail + elements_to_read) % ring.size,
                                       !.count = U32(ring.count - elements_to_read)]),
                      elements_to_read, out1 \o out2, TRUE)

\* bool RingBuffer_PopBack(rb)
RingBuffer_PopBack(rbs, r) ==
  IF r = NULL THEN Result(rbs, FALSE, <<>>, FALSE)
  ELSE IF RingBuffer_IsEmpty(rbs[r]) THEN Result(rbs, FALSE, <<>>, FALSE)
  ELSE LET ring == rbs[r]
       IN Result(Upd(rbs, r, [ring EXCEPT !.head = IF ring.head = 0
                                                   THEN U32(ring.size - 1)
                                                   ELSE ring.head - 1,
                                          !.count = U32(ring.count - 1)]),
                 TRUE, <<>>, TRUE)

\* Mutant of RingBuffer_PopBackMultiple: head is decremented without the
\* wrap-around branch.
PopBackMultiple_NoWrap(rbs, r, n) ==
  IF r = NULL \/ n = 0 THEN Result(rbs, 0, <<>>, FALSE)
  ELSE IF RingBuffer_IsEmpty(rbs[r]) THEN Result(rbs, 0, <<>>, FALSE)
  ELSE LET ring == rbs[r]
           available == RingBuffer_Available(rbs, r)
           elements_to_remove == IF n > available THEN available ELSE n
       IN Result(Upd(rbs, r,
                     [ring EXCEPT !.head = U32(ring.head - elements_to_remove),
                                  !.count = U32(ring.count - elements_to_remove)]),
                 elements_to_remove, <<>>, TRUE)

\* uint32_t RingBuffer_PopBackMultiple(rb, count)
RingBuffer_PopBackMultiple(rbs, r, n) ==
  IF r = NULL \/ n = 0 THEN Result(rbs, 0, <<>>, FALSE)
  ELSE IF RingBuffer_IsEmpty(rbs[r]) THEN Result(rbs, 0, <<>>, FALSE)
  ELSE LET ring == rbs[r]
           available == RingBuffer_Available(rbs, r)
           elements_to_remove == IF n > available THEN available ELSE n
       IN Result(Upd(rbs, r,
                     [ring EXCEPT !.head = IF ring.head >= elements_to_remove
                                           THEN ring.head - elements_to_remove
                                           ELSE U32(ring.size - (elements_to_remove - ring.head)),
                                  !.count = U32(ring.count - elements_to_remove)]),
                 elements_to_remove, <<>>, TRUE)

\* bool RingBuffer_PopFront(rb)
RingBuffer_PopFront(rbs, r) ==
  IF r = NULL THEN Result(rbs, FALSE, <<>>, FALSE)
  ELSE IF RingBuffer_IsEmpty(rbs[r]) THEN Result(rbs, FALSE, <<>>, FALSE)
  ELSE LET ring == rbs[r]
       IN Result(Upd(rbs, r, [ring EXCEPT !.tail = (ring.tail + 1) % ring.size,
                                          !.count = U32(ring.count - 1)]),
                 TRUE, <<>>, TRUE)

\* Mutant of RingBuffer_PopFrontMultiple: the count is not limited to the
\* available elements.
PopFrontMultiple_NoClamp(rbs, r, n) ==
  IF r = NULL \/ n = 0 THEN Result(rbs, 0, <<>>, FALSE)
  ELSE IF RingBuffer_IsEmpty(rbs[r]) THEN Result(rbs, 0, <<>>, FALSE)
  ELSE LET ring == rbs[r]
       IN Result(Upd(rbs, r, [ring EXCEPT !.tail = (ring.tail + n) % ring.size,
                                          !.count = U32(ring.count - n)]),
                 n, <<>>, TRUE)

\* uint32_t RingBuffer_PopFrontMultiple(rb, count)
RingBuffer_PopFrontMultiple(rbs, r, n) ==
  IF r = NULL \/ n = 0 THEN Result(rbs, 0, <<>>, FALSE)
  ELSE IF RingBuffer_IsEmpty(rbs[r]) THEN Result(rbs, 0, <<>>, FALSE)
  ELSE LET ring == rbs[r]
           available == RingBuffer_Available(rbs, r)
           elements_to_remove == IF n > available THEN available ELSE n
       IN Result(Upd(rbs, r,
                     [ring EXCEPT !.tail = (ring.tail + elements_to_remove) % ring.size,
                                  !.count = U32(ring.count - elements_to_remove)]),
                 elements_to_remove, <<>>, TRUE)

\* Mutant of RingBuffer_Clear: tail is not reset.
Clear_KeepsTail(rbs, r) ==
  Result(Upd(rbs, r, [rbs[r] EXCEPT !.head = 0, !.count = 0]), TRUE, <<>>, TRUE)

\* void RingBuffer_Clear(rb)
RingBuffer_Clear(rbs, r) ==
  Result(Upd(rbs, r, [rbs[r] EXCEPT !.head = 0, !.tail = 0, !.count = 0]),
         TRUE, <<>>, TRUE)

\* Mutant of DumpLoop: a chunk is not cut at the end of the destination's
\* storage.
RECURSIVE DumpLoop_NoDstWrap(_, _, _, _)
DumpLoop_NoDstWrap(st, s, d, elements_to_copy) ==
  IF st.copied_count >= elements_to_copy THEN st
  ELSE LET src_chunk == st.rb[s].size - st.src_tail
           remaining == elements_to_copy - st.copied_count
           chunk_size == Min(remaining, src_chunk)
           buf == Memcpy(st.rb[d].buffer, st.dst_head,
                         st.rb[s].buffer, st.src_tail, chunk_size)
       IN DumpLoop_NoDstWrap(
            [rb |-> Upd(st.rb, d, [st.rb[d] EXCEPT !.buffer = buf]),
             copied_count |-> U32(st.copied_count + chunk_size),
             src_tail |-> (st.src_tail + chunk_size) % st.rb[s].size,
             dst_head |-> (st.dst_head + chunk_size) % st.rb[d].size,
             chunks |-> st.chunks + 1],
            s, d, elements_to_copy)

\* The while loop of RingBuffer_DumpToRing / RingBuffer_DumpToRingLimited from
\* the state st = [rb, copied_count, src_tail, dst_head, chunks] on; s and d may
\* be the same ring, whose one buffer both pointers then address.
RECURSIVE DumpLoop(_, _, _, _)
DumpLoop(st, s, d, elements_to_copy) ==
  IF st.copied_count >= elements_to_copy THEN st
  ELSE LET src_chunk == st.rb[s].size - st.src_tail
           dst_chunk == st.rb[d].size - st.dst_head
           remaining == elements_to_copy - st.copied_count
           chunk_size == Min(Min(remaining, src_chunk), dst_chunk)
           buf == Memcpy(st.rb[d].buffer, st.dst_head,
                         st.rb[s].buffer, st.src_tail, chunk_size)
       IN DumpLoop([rb |-> Upd(st.rb, d, [st.rb[d] EXCEPT !.buffer = buf]),
                    copied_count |-> U32(st.copied_count + chunk_size),
                    src_tail |-> (st.src_tail + chunk_size) % st.rb[s].size,
                    dst_head |-> (st.dst_head + chunk_size) % st.rb[d].size,
                    chunks |-> st.chunks + 1],
                   s, d, elements_to_copy)

\* Mutant of DumpCommit: the source is consumed whatever preserve_source says.
DumpCommit_AlwaysConsumes(rbs, s, d, elements_to_copy, preserve_source) ==
  LET st == DumpLoop([rb |-> rbs, copied_count |-> 0, src_tail |-> rbs[s].tail,
                      dst_head |-> rbs[d].head, chunks |-> 0],
                     s, d, elements_to_copy)
      copied_count == st.copied_count
      rb1 == Upd(st.rb, s,
                 [st.rb[s] EXCEPT !.tail = st.src_tail,
                                  !.count = IF st.rb[s].count >= copied_count
                                            THEN st.rb[s].count - copied_count
                                            ELSE 0])
      new_count == U32(rb1[d].count + copied_count)
      rb2 == Upd(rb1, d, [rb1[d] EXCEPT !.head = st.dst_head,
                                        !.count = IF new_count <= rb1[d].size
                                                  THEN new_count ELSE rb1[d].size])
  IN [rb |-> rb2, ret |-> copied_count, out |-> <<>>, cs |-> TRUE,
      chunks |-> st.chunks]

\* The copy loop and the update of both rings' cursors that follows it.
DumpCommit(rbs, s, d, elements_to_copy, preserve_source) ==
  LET st == DumpLoop([rb |-> rbs, copied_count |-> 0, src_tail |-> rbs[s].tail,
                      dst_head |-> rbs[d].head, chunks |-> 0],
                     s, d, elements_to_copy)
      copied_count == st.copied_count
      rb1 == IF preserve_source THEN st.rb
             ELSE Upd(st.rb, s,
                      [st.rb[s] EXCEPT !.tail = st.src_tail,
                                       !.count = IF st.rb[s].count >= copied_count
                                                 THEN st.rb[s].count - copied_count
                                                 ELSE 0])
      new_count == U32(rb1[d].count + copied_count)
      rb2 == Upd(rb1, d, [rb1[d] EXCEPT !.head = st.dst_head,
                                        !.count = IF new_count <= rb1[d].size
                                                  THEN new_count ELSE rb1[d].size])
  IN [rb |-> rb2, ret |-> copied_count, out |-> <<>>, cs |-> TRUE,
      chunks |-> st.chunks]

NoDump(rbs) == [rb |-> rbs, ret |-> 0, out |-> <<>>, cs |-> FALSE, chunks |-> 0]

\* Mutant of RingBuffer_DumpToRing: the element sizes are not compared.
DumpToRing_NoSizeCheck(rbs, s, d, preserve_source) ==
  IF s = NULL \/ d = NULL THEN NoDump(rbs)
  ELSE LET src_available == RingBuffer_Available(rbs, s)
           dst_free == RingBuffer_Free(rbs, d)
           elements_to_copy == IF src_available < dst_free THEN src_available
                               ELSE dst_free
       IN IF src_available = 0 \/ elements_to_copy = 0 THEN NoDump(rbs)
          ELSE DumpCommit(rbs, s, d, elements_to_copy, preserve_source)

\* uint32_t RingBuffer_DumpToRing(src_rb, dst_rb, preserve_source)
RingBuffer_DumpToRing(rbs, s, d, preserve_source) ==
  IF s = NULL \/ d = NULL THEN NoDump(rbs)
  ELSE IF rbs[s].element_size # rbs[d].element_size THEN NoDump(rbs)
  ELSE LET src_available == RingBuffer_Available(rbs, s)
           dst_free == RingBuffer_Free(rbs, d)
           elements_to_copy == IF src_available < dst_free THEN src_available
                               ELSE dst_free
       IN IF src_available = 0 \/ elements_to_copy = 0 THEN NoDump(rbs)
          ELSE DumpCommit(rbs, s, d, elements_to_copy, preserve_source)

\* Mutant of RingBuffer_DumpToRingLimited: the limit replaces the clamp to the
\* destination's free slots.
DumpToRingLimited_NoFreeClamp(rbs, s, d, max_count, preserve_source) ==
  IF s = NULL \/ d = NULL \/ max_count = 0 THEN NoDump(rbs)
  ELSE IF rbs[s].element_size # rbs[d].element_size THEN NoDump(rbs)
  ELSE LET src_available == RingBuffer_Available(rbs, s)
           elements_to_copy == IF src_available > max_count THEN max_count
                               ELSE src_available
       IN IF src_available = 0 \/ elements_to_copy = 0 THEN NoDump(rbs)
          ELSE DumpCommit(rbs, s, d, elements_to_copy, preserve_source)

\* uint32_t RingBuffer_DumpToRingLimited(src_rb, dst_rb, max_count, preserve_source)
RingBuffer_DumpToRingLimited(rbs, s, d, max_count, preserve_source) ==
  IF s = NULL \/ d = NULL \/ max_count = 0 THEN NoDump(rbs)
  ELSE IF rbs[s].element_size # rbs[d].element_size THEN NoDump(rbs)
  ELSE LET src_available == RingBuffer_Available(rbs, s)
           dst_free == RingBuffer_Free(rbs, d)
           e1 == IF src_available > max_count THEN max_count ELSE src_available
           elements_to_copy == IF e1 > dst_free THEN dst_free ELSE e1
       IN IF src_available = 0 \/ elements_to_copy = 0 THEN NoDump(rbs)
          ELSE DumpCommit(rbs, s, d, elements_to_copy, preserve_source)

\* ------------------------------------------------------- critical sections
\* tx_mutex_get(mutex, TX_WAIT_FOREVER) called by context c on the TX_MUTEX m:
\* refused in interrupt context, counted for the owner, granted when free.
\* The caller blocks while another thread owns the mutex (MutexAvailable).
MutexAvailable(mt, m, c) == c = Isr \/ mt[m].owner \in {NoOwner, c}

tx_mutex_get(mt, m, c) ==
  IF c = Isr THEN [status |-> TX_CALLER_ERROR, mtx |-> mt]
  ELSE [status |-> TX_SUCCESS,
        mtx |-> [mt EXCEPT ![m] = [owner |-> c, cnt |-> mt[m].cnt + 1]]]

\* tx_mutex_put(mutex) called by context c: only the owner releases.
tx_mutex_put(mt, m, c) ==
  IF c = Isr THEN [status |-> TX_CALLER_ERROR, mtx |-> mt]
  ELSE IF mt[m].owner # c THEN [status |-> TX_NOT_OWNED, mtx |-> mt]
  ELSE [status |-> TX_SUCCESS,
        mtx |-> [mt EXCEPT ![m] = IF mt[m].cnt = 1
                                   THEN [owner |-> NoOwner, cnt |-> 0]
                                   ELSE [owner |-> c, cnt |-> mt[m].cnt - 1]]]

\* Mutant of _ring_mutex_lock: the mutex is never taken.
Lock_Skipped(mt, m, c) == [ok |-> FALSE, mtx |-> mt]

\* static inline bool _ring_mutex_lock(void *mutex)
ring_mutex_lock(mt, m, c) ==
  IF m = NULL THEN [ok |-> FALSE, mtx |-> mt]
  ELSE LET g == tx_mutex_get(mt, m, c)
       IN [ok |-> g.status = TX_SUCCESS, mtx |-> g.mtx]

\* Mutant of _ring_mutex_unlock: the mutex is never put back.
Unlock_Skipped(mt, m, c) == [ok |-> FALSE, mtx |-> mt]

\* static inline bool _ring_mutex_unlock(void *mutex)
ring_mutex_unlock(mt, m, c) ==
  IF m = NULL THEN [ok |-> FALSE, mtx |-> mt]
  ELSE LET g == tx_mutex_put(mt, m, c)
       IN [ok |-> g.status = TX_SUCCESS, mtx |-> g.mtx]

\* ENTER_CRITICAL_SECTION(mutex) ... EXIT_CRITICAL_SECTION(mutex) around the
\* cursor update of one call made by context c: the mutex objects afterwards.
CriticalSection(mt, m, c) ==
  ring_mutex_unlock(ring_mutex_lock(mt, m, c).mtx, m, c).mtx

\* ------------------------------------ common.c: the provider registry
MUTEX_OK == "MUTEX_OK"
MUTEX_TIMEOUT == "MUTEX_TIMEOUT"
MUTEX_ERROR == "MUTEX_ERROR"
TX_NOT_AVAILABLE == "TX_NOT_AVAILABLE"
\* const mutex_callbacks_t mutex_callbacks (the ThreadX provider)
mutex_callbacks == "threadx"

\* void utilities_set_RTOS_ready(bool status)
utilities_set_RTOS_ready(rg, status) == [rg EXCEPT !.RTOS_READY = status, !.cb = "none"]

\* void utilities_register_cs_cbs(const mutex_callbacks_t *callbacks)
utilities_register_cs_cbs(rg, callbacks) ==
  [rg EXCEPT !.cs_callbacks = callbacks, !.cb = "none"]

utilities_is_RTOS_ready(rg) == rg.RTOS_READY

\* Mutant of the test made by the utilities_mutex_* functions: the
\* RTOS-ready flag is not looked at.
Registered_IgnoresReady(rg) == rg.cs_callbacks # NULL

\* utilities_is_RTOS_ready() && cs_callbacks != NULL
Registered(rg) == utilities_is_RTOS_ready(rg) /\ rg.cs_callbacks # NULL

\* tx_mutex_get with a finite wait: the status when the wait ends.
tx_mutex_get_timed(mt, m, c) ==
  IF c # Isr /\ mt[m].owner \notin {NoOwner, c}
    THEN [status |-> TX_NOT_AVAILABLE, mtx |-> mt]
    ELSE tx_mutex_get(mt, m, c)

\* void* threadx_mutex_create(void): h is the block byte_allocate returns,
\* NULL when the pool is exhausted.
threadx_mutex_create(rg, h) ==
  IF h = NULL THEN [handle |-> NULL, reg |-> rg]
  ELSE [handle |-> h, reg |-> [rg EXCEPT !.created = @ \cup {h}]]

\* mutex_result_t threadx_mutex_enter(void *mutex, uint32_t timeout_ms)
threadx_mutex_enter(mt, m, c) ==
  IF m = NULL THEN [res |-> MUTEX_ERROR, mtx |-> mt]
  ELSE LET g == tx_mutex_get_timed(mt, m, c)
       IN [res |-> IF g.status = TX_SUCCESS THEN MUTEX_OK
                   ELSE IF g.status = TX_NOT_AVAILABLE THEN MUTEX_TIMEOUT
                   ELSE MUTEX_ERROR,
           mtx |-> g.mtx]

\* mutex_result_t threadx_mutex_exit(void *mutex)
threadx_mutex_exit(mt, m, c) ==
  IF m = NULL THEN [res |-> MUTEX_ERROR, mtx |-> mt]
  ELSE LET g == tx_mutex_put(mt, m, c)
       IN [res |-> IF g.status = TX_SUCCESS THEN MUTEX_OK ELSE MUTEX_ERROR,
           mtx |-> g.mtx]

\* mutex_result_t threadx_mutex_destroy(void *mutex)
threadx_mutex_destroy(rg, mt, m) ==
  IF m = NULL THEN [res |-> MUTEX_ERROR, mtx |-> mt, reg |-> rg]
  ELSE [res |-> IF m \in rg.created THEN MUTEX_OK ELSE MUTEX_ERROR,
        mtx |-> [mt EXCEPT ![m] = [owner |-> NoOwner, cnt |-> 0]],
        reg |-> [rg EXCEPT !.created = @ \ {m}]]

\* void* utilities_mutex_create(void)
utilities_mutex_create(rg, h) ==
  IF Registered(rg)
    THEN LET r == threadx_mutex_create(rg, h)
         IN [handle |-> r.handle, reg |-> [r.reg EXCEPT !.cb = "create"]]
    ELSE [handle |-> NULL, reg |-> [rg EXCEPT !.cb = "none"]]

\* mutex_result_t utilities_mutex_take(void *mutex, uint32_t timeout_ms)
utilities_mutex_take(rg, mt, m, c) ==
  IF m = NULL THEN [res |-> MUTEX_ERROR, mtx |-> mt, reg |-> [rg EXCEPT !.cb = "none"]]
  ELSE IF ~Registered(rg)
    THEN [res |-> MUTEX_ERROR, mtx |-> mt, reg |-> [rg EXCEPT !.cb = "none"]]
  ELSE LET r == threadx_mutex_enter(mt, m, c)
       IN [res |-> r.res, mtx |-> r.mtx, reg |-> [rg EXCEPT !.cb = "acquire"]]

\* mutex_result_t utilities_mutex_give(void *mutex)
utilities_mutex_give(rg, mt, m, c) ==
  IF m = NULL THEN [res |-> MUTEX_ERROR, mtx |-> mt, reg |-> [rg EXCEPT !.cb = "none"]]
  ELSE IF ~Registered(rg)
    THEN [res |-> MUTEX_ERROR, mtx |-> mt, reg |-> [rg EXCEPT !.cb = "none"]]
  ELSE LET r == threadx_mutex_exit(mt, m, c)
       IN [res |-> r.res, mtx |-> r.mtx, reg |-> [rg EXCEPT !.cb = "release"]]

\* mutex_result_t utilities_mutex_delete(void *mutex)
utilities_mutex_delete(rg, mt, m) ==
  IF Registered(rg) /\ m # NULL
    THEN LET r == threadx_mutex_destroy(rg, mt, m)
         IN [res |-> r.res, mtx |-> r.mtx, reg |-> [r.reg EXCEPT !.cb = "destroy"]]
    ELSE [res |-> MUTEX_OK, mtx |-> mt, reg |-> [rg EXCEPT !.cb = "none"]]

\* ------------------------------------------------------------------- Init
ElemSize == {1, 4}
\* The arrays of at most n elements of V a caller can hand to a batch call.
DataSeq(V, n) == UNION {[1..k -> V] : k \in 0..n}
Counts == 0..(MaxBatch + 1)
RingOrNull == Ring \cup {NULL}
NoCall == [op |-> "none", ring |-> NULL, val |-> FALSE, out |-> <<>>]

\* Both rings after RingBuffer_Init on storage of sz[r] elements.
InitRings(sz, es) ==
  rb = [r \in Ring |-> RingBuffer_Init([i \in 1..sz[r] |-> Junk], sz[r], es[r])]

InitRest ==
  /\ mtx = [r \in Ring |-> [owner |-> NoOwner, cnt |-> 0]]
  /\ primask = 0
  /\ reg = Reg0
  /\ ret = NoCall
  /\ wlog = <<>>
  /\ rlog = <<>>
  /\ pc = [c \in Ctx |-> "idle"]
  /\ loc = [c \in Ctx |-> <<>>]

Init ==
  /\ \E sz \in [Ring -> 1..MaxSize], es \in [Ring -> ElemSize] : InitRings(sz, es)
  /\ InitRest

\* --------------------------------------------- calls run start to finish
\* One whole call on the rings by context c with result res, whose critical
\* section (when reached) is taken on the mutex pointer m.
Call(res, m, c) ==
  /\ rb' = res.rb
  /\ mtx' = IF res.cs THEN CriticalSection(mtx, m, c) ELSE mtx
  /\ UNCHANGED <<primask, reg, pc, loc>>

\* What the caller sees of the call: its name, ring and results.
Returned(op, r, res) == [op |-> op, ring |-> r, val |-> res.ret, out |-> res.out]

MutexPtr(r) == IF r = NULL THEN NULL ELSE rb[r].mutex
Callers == {Main, Isr}

\* Mutant of RingBuffer_AttachMutex: attaching also rewinds the ring.
AttachMutex_Rewinds(rbs, r, mutex) ==
  IF r = NULL THEN [rb |-> rbs, ret |-> FALSE]
  ELSE [rb |-> [rbs EXCEPT ![r].mutex = mutex, ![r].head = 0, ![r].tail = 0,
                           ![r].count = 0],
        ret |-> TRUE]

\* bool RingBuffer_AttachMutex(RingBuffer_t *rb, void *mutex)
RingBuffer_AttachMutex(rbs, r, mutex) ==
  IF r = NULL THEN [rb |-> rbs, ret |-> FALSE]
  ELSE [rb |-> [rbs EXCEPT ![r].mutex = mutex], ret |-> TRUE]

AttachMutex(r) ==
  /\ rb' = RingBuffer_AttachMutex(rb, r, MutexOf(r)).rb
  /\ UNCHANGED <<mtx, primask, reg, pc, loc>>

DetachMutex(r) ==
  /\ rb' = IF rb[r].mutex = NULL THEN rb ELSE [rb EXCEPT ![r].mutex = NULL]
  /\ UNCHANGED <<mtx, primask, reg, pc, loc>>

Write(r, v, c) == Call(RingBuffer_Write(rb, r, v), MutexPtr(r), c)

Read(r, c) == Call(RingBuffer_Read(rb, r), MutexPtr(r), c)

PushFront(r, v, c) == Call(RingBuffer_PushFront(rb, r, v), MutexPtr(r), c)

PushBackOverwriteMultiple(r, ok, d, c) ==
  Call(RingBuffer_PushBackOverwriteMultiple(rb, r, ok, d), MutexPtr(r), c)

WriteMultiple(r, ok, d, c) ==
  Call(RingBuffer_WriteMultiple(rb, r, ok, d), MutexPtr(r), c)

ReadMultiple(r, ok, n, c) ==
  Call(RingBuffer_ReadMultiple(rb, r, ok, n), MutexPtr(r), c)

PopBack(r, c) == Call(RingBuffer_PopBack(rb, r), MutexPtr(r), c)

PopBackMultiple(r, n, c) == Call(RingBuffer_PopBackMultiple(rb, r, n), MutexPtr(r), c)

PopFront(r, c) == Call(RingBuffer_PopFront(rb, r), MutexPtr(r), c)

PopFrontMultiple(r, n, c) == Call(RingBuffer_PopFrontMultiple(rb, r, n), MutexPtr(r), c)

\* RingBuffer_Clear passes no mutex to its critical section.
Clear(r, c) == Call(RingBuffer_Clear(rb, r), NULL, c)

\* The critical section of both dump functions names rb->mutex, a ring that is
\* neither parameter: it is taken on the mutex pointer of either ring.
DumpToRing(s, d, p, c) ==
  \E m \in {MutexPtr(s), MutexPtr(d)} :
    Call(RingBuffer_DumpToRing(rb, s, d, p), m, c)

DumpToRingLimited(s, d, n, p, c) ==
  \E m \in {MutexPtr(s), MutexPtr(d)} :
    Call(RingBuffer_DumpToRingLimited(rb, s, d, n, p), m, c)

\* ------------------------------------------------- Spec: every operation
\* Every operation of ring.c, in any order, on the two rings, called from the
\* main thread or from an interrupt handler, with every argument the code
\* tests for (NULL ring, NULL data, zero count). The payload does not decide
\* where the cursors go, so one payload value is written.
Payload == {MaxVal}
Untracked == UNCHANGED <<ret, wlog, rlog>>

Next ==
  \/ \E r \in Ring : AttachMutex(r) /\ Untracked
  \/ \E r \in Ring : DetachMutex(r) /\ Untracked
  \/ \E r \in Ring, v \in Payload, c \in Callers : Write(r, v, c) /\ Untracked
  \/ \E r \in RingOrNull, c \in Callers : Read(r, c) /\ Untracked
  \/ \E r \in RingOrNull, v \in Payload, c \in Callers : PushFront(r, v, c) /\ Untracked
  \/ \E r \in RingOrNull, ok \in BOOLEAN, d \in DataSeq(Payload, MaxBatch), c \in Callers :
       PushBackOverwriteMultiple(r, ok, d, c) /\ Untracked
  \/ \E r \in RingOrNull, ok \in BOOLEAN, d \in DataSeq(Payload, MaxBatch), c \in Callers :
       WriteMultiple(r, ok, d, c) /\ Untracked
  \/ \E r \in RingOrNull, ok \in BOOLEAN, n \in Counts, c \in Callers :
       ReadMultiple(r, ok, n, c) /\ Untracked
  \/ \E r \in RingOrNull, c \in Callers : PopBack(r, c) /\ Untracked
  \/ \E r \in RingOrNull, n \in Counts, c \in Callers : PopBackMultiple(r, n, c) /\ Untracked
  \/ \E r \in RingOrNull, c \in Callers : PopFront(r, c) /\ Untracked
  \/ \E r \in RingOrNull, n \in Counts, c \in Callers : PopFrontMultiple(r, n, c) /\ Untracked
  \/ \E r \in Ring, c \in Callers : Clear(r, c) /\ Untracked
  \/ \E s \in RingOrNull, d \in RingOrNull, p \in BOOLEAN, c \in Callers :
       DumpToRing(s, d, p, c) /\ Untracked
  \/ \E s \in RingOrNull, d \in RingOrNull, n \in Counts, p \in BOOLEAN, c \in Callers :
       DumpToRingLimited(s, d, n, p, c) /\ Untracked

Spec == Init /\ [][Next]_vars

\* ------------------------------------- SpecWR: one ring, write and read
\* Ring A used alone by the main thread with the calls that never overwrite:
\* RingBuffer_Write, RingBuffer_Read, RingBuffer_WriteMultiple and
\* RingBuffer_ReadMultiple. wlog records the elements the ring accepted, rlog
\* the elements it returned, ret the last call and its results.
InitOne ==
  /\ \E n \in 1..MaxCap :
       InitRings([r \in Ring |-> IF r = "A" THEN n ELSE 1], [r \in Ring |-> 4])
  /\ InitRest

Track(op, res, accepted) ==
  /\ Len(wlog) + Len(accepted) <= MaxLog
  /\ ret' = Returned(op, "A", res)
  /\ wlog' = wlog \o accepted
  /\ rlog' = rlog \o res.out

TrackedWrite(v) ==
  LET res == RingBuffer_Write(rb, "A", v)
  IN Write("A", v, Main) /\ Track("Write", res, IF res.ret THEN <<v>> ELSE <<>>)

TrackedRead ==
  Read("A", Main) /\ Track("Read", RingBuffer_Read(rb, "A"), <<>>)

TrackedWriteMultiple(d) ==
  LET res == RingBuffer_WriteMultiple(rb, "A", TRUE, d)
  IN WriteMultiple("A", TRUE, d, Main)
     /\ Track("WriteMultiple", res, SubSeq(d, 1, res.ret))

TrackedReadMultiple(n) ==
  ReadMultiple("A", TRUE, n, Main)
  /\ Track("ReadMultiple", RingBuffer_ReadMultiple(rb, "A", TRUE, n), <<>>)

NextWR ==
  \/ \E v \in Val : TrackedWrite(v)
  \/ TrackedRead
  \/ \E d \in DataSeq(Val, MaxBatch) : TrackedWriteMultiple(d)
  \/ \E n \in Counts : TrackedReadMultiple(n)

SpecWR == InitOne /\ [][NextWR]_vars

\* ------------------------------------ SpecBatch: one ring, batch calls
\* Ring A used alone by the main thread with RingBuffer_WriteMultiple and
\* RingBuffer_ReadMultiple only. ret also records the request (arg: the array
\* handed to the write, the count asked of the read); wlog is the array last
\* handed to a write.
\* The arrays handed to the batch write: runs of up to MaxBatch consecutive
\* values, so that no two elements of an array are the same.
Run(v, k) == [i \in 1..k |-> v + i - 1]
BatchData == {Run(v, k) : v \in {1, MaxVal}, k \in 0..MaxBatch}

BatchWrite(d) ==
  LET res == RingBuffer_WriteMultiple(rb, "A", TRUE, d)
  IN /\ WriteMultiple("A", TRUE, d, Main)
     /\ ret' = [op |-> "WriteMultiple", ring |-> "A", val |-> res.ret,
                out |-> res.out, arg |-> d]
     /\ wlog' = d
     /\ UNCHANGED rlog

BatchRead(n) ==
  LET res == RingBuffer_ReadMultiple(rb, "A", TRUE, n)
  IN /\ ReadMultiple("A", TRUE, n, Main)
     /\ ret' = [op |-> "ReadMultiple", ring |-> "A", val |-> res.ret,
                out |-> res.out, arg |-> n]
     /\ UNCHANGED <<wlog, rlog>>

NextBatch ==
  \/ \E d \in BatchData : BatchWrite(d)
  \/ \E n \in Counts : BatchRead(n)

SpecBatch == InitOne /\ [][NextBatch]_vars

\* ------------------------------------ SpecPeek: one ring, peeks
\* Single writes and reads of ring A as in SpecWR, and between them peeks at
\* either end, of ring A or of no ring; wlog is every element written so far.
PeekFront(r) ==
  /\ ret' = Returned("PeekFront", r, RingBuffer_PeekFront(rb, r))
  /\ UNCHANGED <<rb, mtx, primask, reg, wlog, rlog, pc, loc>>

PeekBack(r) ==
  /\ ret' = Returned("PeekBack", r, RingBuffer_PeekBack(rb, r))
  /\ UNCHANGED <<rb, mtx, primask, reg, wlog, rlog, pc, loc>>

NextPeek ==
  \/ \E v \in Val : TrackedWrite(v)
  \/ TrackedRead
  \/ \E r \in {"A", NULL} : PeekFront(r)
  \/ \E r \in {"A", NULL} : PeekBack(r)

SpecPeek == InitOne /\ [][NextPeek]_vars

\* ------------------------------------ SpecEnds: one ring, both ends
\* The main thread writes ring A of capacity 1..MaxCap and removes elements
\* from either end, one or several at a time, on ring A or on no ring; ret
\* records each call with its count argument (arg).
Did(op, r, n, res) ==
  /\ ret' = [op |-> op, ring |-> r, arg |-> n, val |-> res.ret, out |-> res.out]
  /\ UNCHANGED <<wlog, rlog>>

EndsWrite(v) ==
  Write("A", v, Main) /\ Did("Write", "A", 1, RingBuffer_Write(rb, "A", v))

EndsPopFront(r) ==
  PopFront(r, Main) /\ Did("PopFront", r, 1, RingBuffer_PopFront(rb, r))

EndsPopBack(r) ==
  PopBack(r, Main) /\ Did("PopBack", r, 1, RingBuffer_PopBack(rb, r))

EndsPopFrontMultiple(r, n) ==
  /\ PopFrontMultiple(r, n, Main)
  /\ Did("PopFrontMultiple", r, n, RingBuffer_PopFrontMultiple(rb, r, n))

EndsPopBackMultiple(r, n) ==
  /\ PopBackMultiple(r, n, Main)
  /\ Did("PopBackMultiple", r, n, RingBuffer_PopBackMultiple(rb, r, n))

NextEnds ==
  \/ \E v \in Val : EndsWrite(v)
  \/ \E r \in {"A", NULL} : EndsPopFront(r)
  \/ \E r \in {"A", NULL} : EndsPopBack(r)
  \/ \E r \in {"A", NULL}, n \in Counts : EndsPopFrontMultiple(r, n)
  \/ \E r \in {"A", NULL}, n \in Counts : EndsPopBackMultiple(r, n)

SpecEnds == InitOne /\ [][NextEnds]_vars

\* ----------------------- SpecRT: one ring across the start of the RTOS
\* Ring A written and read by the main thread with no provider registered
\* and no mutex; then, once, the provider is registered, the RTOS-ready flag
\* set (setup_rtos_logging_callbacks) and a mutex created by the provider is
\* attached; then written and read again. loc[Main] remembers how many
\* elements had been written and read when the mutex was attached.
StartRtos ==
  LET ready == utilities_set_RTOS_ready(
                 utilities_register_cs_cbs(reg, mutex_callbacks), TRUE)
      made == utilities_mutex_create(ready, MutexOf("A"))
  IN /\ rb["A"].mutex = NULL
     /\ reg' = made.reg
     /\ rb' = RingBuffer_AttachMutex(rb, "A", made.handle).rb
     /\ loc' = [loc EXCEPT ![Main] = <<Len(wlog), Len(rlog)>>]
     /\ ret' = [op |-> "AttachMutex", ring |-> "A", val |-> TRUE, out |-> <<>>]
     /\ UNCHANGED <<mtx, primask, wlog, rlog, pc>>

NextRT ==
  \/ \E v \in Val : TrackedWrite(v)
  \/ TrackedRead
  \/ StartRtos

SpecRT == InitOne /\ [][NextRT]_vars

\* ------------------------------------ SpecOW: one ring, overwriting push
\* Ring A used alone by the main thread with RingBuffer_PushFront next to
\* RingBuffer_Write and RingBuffer_Read; wlog records every element stored.
TrackedPushFront(v) ==
  LET res == RingBuffer_PushFront(rb, "A", v)
  IN PushFront("A", v, Main) /\ Track("PushFront", res, IF res.ret THEN <<v>> ELSE <<>>)

NextOW ==
  \/ \E v \in Val : TrackedPushFront(v)
  \/ \E v \in Val : TrackedWrite(v)
  \/ TrackedRead

SpecOW == InitOne /\ [][NextOW]_vars

\* ------------------------------------ SpecOver: one ring, overwriting batch
\* Ring A of capacity 1..MaxSize used alone by the main thread with
\* RingBuffer_Write, RingBuffer_Read and RingBuffer_PushBackOverwriteMultiple
\* of arrays of up to MaxSize + 1 different elements, so that an array can be
\* longer than the ring; ret records the array (arg).
OverData == {Run(v, k) : v \in Val, k \in 0..(MaxSize + 1)}

InitOver ==
  /\ \E n \in 1..MaxSize :
       InitRings([r \in Ring |-> IF r = "A" THEN n ELSE 1], [r \in Ring |-> 4])
  /\ InitRest

OverWrite(v) ==
  Write("A", v, Main) /\ Did("Write", "A", <<v>>, RingBuffer_Write(rb, "A", v))

OverRead ==
  Read("A", Main) /\ Did("Read", "A", <<>>, RingBuffer_Read(rb, "A"))

OverPush(d) ==
  /\ PushBackOverwriteMultiple("A", TRUE, d, Main)
  /\ Did("PushBackOverwriteMultiple", "A", d,
         RingBuffer_PushBackOverwriteMultiple(rb, "A", TRUE, d))

NextOver ==
  \/ \E v \in Val : OverWrite(v)
  \/ OverRead
  \/ \E d \in OverData : OverPush(d)

SpecOver == InitOver /\ [][NextOver]_vars

\* ------------------------------------ SpecPeeks: one ring, batch peeks
\* Single writes and reads of ring A of capacity 1..MaxCap by the main
\* thread, and between them RingBuffer_PeekFrontMultiple and RingBuffer_PeekBackMultiple with every
\* argument the code tests for; ret records the arguments (arg: the count;
\* data: whether the output array is a pointer).
PeekFrontMultiple(r, ok, n) ==
  LET res == RingBuffer_PeekFrontMultiple(rb, r, ok, n)
  IN /\ ret' = [op |-> "PeekFrontMultiple", ring |-> r, val |-> res.ret,
                out |-> res.out, arg |-> <<n>>, data |-> ok]
     /\ UNCHANGED <<rb, mtx, primask, reg, wlog, rlog, pc, loc>>

PeekBackMultiple(r, ok, n) ==
  LET res == RingBuffer_PeekBackMultiple(rb, r, ok, n)
  IN /\ ret' = [op |-> "PeekBackMultiple", ring |-> r, val |-> res.ret,
                out |-> res.out, arg |-> <<n>>, data |-> ok]
     /\ UNCHANGED <<rb, mtx, primask, reg, wlog, rlog, pc, loc>>

NextPeeks ==
  \/ \E v \in Val : OverWrite(v)
  \/ OverRead
  \/ \E r \in {"A", NULL}, ok \in BOOLEAN, n \in Counts : PeekFrontMultiple(r, ok, n)
  \/ \E r \in {"A", NULL}, ok \in BOOLEAN, n \in Counts : PeekBackMultiple(r, ok, n)

SpecPeeks == InitOne /\ [][NextPeeks]_vars

\* ------------------------------------ SpecClear: one ring, cleared
\* Ring A after RingBuffer_Init or RingBuffer_InitDynamic, with or without a
\* mutex attached, written and read one element at a time by the main thread
\* and cleared at any point. wlog and rlog are the elements written and read
\* since the ring was last cleared.
InitClear ==
  /\ \E n \in 1..MaxCap, owns \in BOOLEAN, m \in {NULL, MutexOf("A")} :
       rb = [r \in Ring |->
               IF r = "A"
                 THEN [RingBuffer_Init([i \in 1..n |-> Junk], n, 4)
                         EXCEPT !.owns_buffer = owns, !.mutex = m]
                 ELSE RingBuffer_Init(<<Junk>>, 1, 4)]
  /\ InitRest

TrackedClear ==
  /\ Clear("A", Main)
  /\ ret' = Returned("Clear", "A", RingBuffer_Clear(rb, "A"))
  /\ wlog' = <<>>
  /\ rlog' = <<>>

NextClear ==
  \/ \E v \in Val : TrackedWrite(v)
  \/ TrackedRead
  \/ TrackedClear

SpecClear == InitClear /\ [][NextClear]_vars

\* ------------------------- SpecSync: every operation, results recorded
\* Every operation of ring.c on ring A of capacity 1..MaxSize, with a
\* one-slot ring B as the other end of transfers, each ring with or without
\* its mutex attached, called from the main thread or an interrupt handler
\* with interrupts enabled or masked; ret records each call's name and
\* return value. The caller writes zero bytes, the content the storage
\* starts with.
ZeroPayload == {Junk}
Transfers == {<<"A", "B">>, <<"B", "A">>, <<"A", "A">>, <<NULL, "A">>, <<"A", NULL>>}
Limits == {0, 1, MaxBatch}

InitSync ==
  /\ \E n \in 1..MaxSize, es \in ElemSize :
       InitRings([r \in Ring |-> IF r = "A" THEN n ELSE 1],
                 [r \in Ring |-> IF r = "A" THEN 4 ELSE es])
  /\ mtx = [r \in Ring |-> [owner |-> NoOwner, cnt |-> 0]]
  /\ primask \in {0, 1}
  /\ reg = Reg0
  /\ ret = NoCall
  /\ wlog = <<>>
  /\ rlog = <<>>
  /\ pc = [c \in Ctx |-> "idle"]
  /\ loc = [c \in Ctx |-> <<>>]

Seen(op, r, res) ==
  /\ ret' = [op |-> op, ring |-> r, val |-> res.ret, out |-> <<>>]
  /\ UNCHANGED <<wlog, rlog>>

SeenDone(op, r) ==
  /\ ret' = [op |-> op, ring |-> r, val |-> TRUE, out |-> <<>>]
  /\ UNCHANGED <<wlog, rlog>>

NextSync ==
  \/ \E r \in Ring : AttachMutex(r) /\ SeenDone("AttachMutex", r)
  \/ \E r \in Ring : DetachMutex(r) /\ SeenDone("DetachMutex", r)
  \/ \E v \in ZeroPayload, c \in Callers :
       Write("A", v, c) /\ Seen("Write", "A", RingBuffer_Write(rb, "A", v))
  \/ \E r \in {"A", NULL}, c \in Callers :
       Read(r, c) /\ Seen("Read", r, RingBuffer_Read(rb, r))
  \/ \E r \in {"A", NULL}, v \in ZeroPayload, c \in Callers :
       PushFront(r, v, c) /\ Seen("PushFront", r, RingBuffer_PushFront(rb, r, v))
  \/ \E r \in {"A", NULL}, ok \in BOOLEAN, d \in DataSeq(ZeroPayload, MaxBatch), c \in Callers :
       /\ PushBackOverwriteMultiple(r, ok, d, c)
       /\ Seen("PushBackOverwriteMultiple", r,
               RingBuffer_PushBackOverwriteMultiple(rb, r, ok, d))
  \/ \E r \in {"A", NULL}, ok \in BOOLEAN, d \in DataSeq(ZeroPayload, MaxBatch), c \in Callers :
       /\ WriteMultiple(r, ok, d, c)
       /\ Seen("WriteMultiple", r, RingBuffer_WriteMultiple(rb, r, ok, d))
  \/ \E r \in {"A", NULL}, ok \in BOOLEAN, n \in Counts, c \in Callers :
       /\ ReadMultiple(r, ok, n, c)
       /\ Seen("ReadMultiple", r, RingBuffer_ReadMultiple(rb, r, ok, n))
  \/ \E r \in {"A", NULL}, c \in Callers :
       PopBack(r, c) /\ Seen("PopBack", r, RingBuffer_PopBack(rb, r))
  \/ \E r \in {"A", NULL}, n \in Counts, c \in Callers :
       /\ PopBackMultiple(r, n, c)
       /\ Seen("PopBackMultiple", r, RingBuffer_PopBackMultiple(rb, r, n))
  \/ \E r \in {"A", NULL}, c \in Callers :
       PopFront(r, c) /\ Seen("PopFront", r, RingBuffer_PopFront(rb, r))
  \/ \E r \in {"A", NULL}, n \in Counts, c \in Callers :
       /\ PopFrontMultiple(r, n, c)
       /\ Seen("PopFrontMultiple", r, RingBuffer_PopFrontMultiple(rb, r, n))
  \/ \E c \in Callers : Clear("A", c) /\ SeenDone("Clear", "A")
  \/ \E t \in Transfers, p \in BOOLEAN, c \in Callers :
       /\ DumpToRing(t[1], t[2], p, c)
       /\ Seen("DumpToRing", t[1], RingBuffer_DumpToRing(rb, t[1], t[2], p))
  \/ \E t \in Transfers, n \in Limits, p \in BOOLEAN, c \in Callers :
       /\ DumpToRingLimited(t[1], t[2], n, p, c)
       /\ Seen("DumpToRingLimited", t[1],
               RingBuffer_DumpToRingLimited(rb, t[1], t[2], n, p))

SpecSync == InitSync /\ [][NextSync]_vars

\* ------------------------------- SpecDump: transfers between two rings
\* Rings A and B of capacity 1..MaxSize each, of equal or different element
\* size. The main thread fills ring A with RingBuffer_Write, transfers from A
\* to B with RingBuffer_DumpToRing and RingBuffer_DumpToRingLimited, every
\* argument the code tests for included, and drains either ring with
\* RingBuffer_Read. ret records the transfer's arguments (ring: src_rb, dst:
\* dst_rb, preserve, max: max_count) and its result. The element written into
\* ring A tells the slot it was written to (slot k receives k + 1), so that
\* the elements the ring holds differ from each other.
Stamp(r) == rb[r].head + 1
DumpPairs == {<<"A", "B">>, <<NULL, "B">>, <<"A", NULL>>}
NoMax == MaxSize + MaxBatch

InitDump ==
  /\ \E sz \in [Ring -> 1..MaxSize], es \in ElemSize :
       InitRings(sz, [r \in Ring |-> IF r = "A" THEN 4 ELSE es])
  /\ InitRest

Fill(r) ==
  /\ Write(r, Stamp(r), Main)
  /\ ret' = NoCall
  /\ UNCHANGED <<wlog, rlog>>

Drain(r) ==
  /\ Read(r, Main)
  /\ ret' = NoCall
  /\ UNCHANGED <<wlog, rlog>>

Transfer(s, d, p) ==
  /\ DumpToRing(s, d, p, Main)
  /\ ret' = [op |-> "DumpToRing", ring |-> s, dst |-> d, preserve |-> p,
             max |-> NoMax, val |-> RingBuffer_DumpToRing(rb, s, d, p).ret,
             out |-> <<>>]
  /\ UNCHANGED <<wlog, rlog>>

TransferLimited(s, d, n, p) ==
  /\ DumpToRingLimited(s, d, n, p, Main)
  /\ ret' = [op |-> "DumpToRingLimited", ring |-> s, dst |-> d, preserve |-> p,
             max |-> n, val |-> RingBuffer_DumpToRingLimited(rb, s, d, n, p).ret,
             out |-> <<>>]
  /\ UNCHANGED <<wlog, rlog>>

NextDump ==
  \/ Fill("A")
  \/ \E r \in Ring : Drain(r)
  \/ \E t \in DumpPairs, p \in BOOLEAN : Transfer(t[1], t[2], p)
  \/ \E t \in DumpPairs, n \in Limits, p \in BOOLEAN :
       TransferLimited(t[1], t[2], n, p)

SpecDump == InitDump /\ [][NextDump]_vars

\* ------------------- interleaved RingBuffer_Write / RingBuffer_Read
\* RingBuffer_Write and RingBuffer_Read on the shared ring A, one access to
\* shared memory per step, in the order of the statements of ring.c. An
\* element is copied in two halves (memcpy is not atomic), so a slot holds
\* <<low half, high half>>. Threads interleave freely; an interrupt handler
\* starts only while primask = 0 and runs to its return before any thread
\* continues.
Elem(v) == <<v, v>>
\* ring: the ring the context's calls are made on; locked: what
\* ENTER_CRITICAL_SECTION returned in the call in progress.
\* h: the mutex a caller has created and not yet attached.
Local0 == [data |-> Junk, at |-> 0, lo |-> Junk, hi |-> Junk, tmp |-> 0, left |-> 0,
           ring |-> "A", locked |-> FALSE, h |-> NULL]

InitShared(attached, calls) ==
  /\ \E n \in 1..MaxSize :
       rb = [r \in Ring |->
               LET size == IF r = "A" THEN n ELSE 1
                   ring == RingBuffer_Init([i \in 1..size |-> Elem(Junk)], size, 4)
               IN IF r = "A" /\ attached THEN [ring EXCEPT !.mutex = MutexOf(r)]
                  ELSE ring]
  /\ mtx = [r \in Ring |-> [owner |-> NoOwner, cnt |-> 0]]
  /\ primask = 0
  /\ reg = Reg0
  /\ ret = NoCall
  /\ wlog = <<>>
  /\ rlog = <<>>
  /\ pc = [c \in Ctx |-> "idle"]
  /\ loc = [c \in Ctx |-> [Local0 EXCEPT !.left = calls]]

\* A thread runs unless an interrupt handler is active; a handler is entered
\* only with interrupts enabled.
MayStart(c) ==
  /\ pc[c] = "idle"
  /\ loc[c].left > 0
  /\ pc[Isr] = "idle"
  /\ c = Isr => primask = 0

MayRun(c, at) ==
  /\ pc[c] = at
  /\ c = Isr \/ pc[Isr] = "idle"

Goto(c, label) == pc' = [pc EXCEPT ![c] = label]

\* if (RingBuffer_IsFull(rb)) return false;
WriteCheck(c, v) ==
  /\ MayStart(c)
  /\ IF RingBuffer_IsFull(rb[loc[c].ring])
       THEN /\ loc' = [loc EXCEPT ![c].left = @ - 1]
            /\ UNCHANGED <<pc, wlog>>
       ELSE /\ loc' = [loc EXCEPT ![c].left = @ - 1, ![c].data = v]
            /\ Goto(c, "w_dest")
            /\ wlog' = Append(wlog, Elem(v))
  /\ UNCHANGED <<rb, mtx, primask, reg, ret, rlog>>

\* void *dest = (uint8_t *)rb->buffer + (rb->head * rb->element_size);
WriteDest(c) ==
  /\ MayRun(c, "w_dest")
  /\ loc' = [loc EXCEPT ![c].at = rb[loc[c].ring].head]
  /\ Goto(c, "w_lo")
  /\ UNCHANGED <<rb, mtx, primask, reg, ret, wlog, rlog>>

\* memcpy(dest, data, rb->element_size), first half
WriteLo(c) ==
  /\ MayRun(c, "w_lo")
  /\ rb' = [rb EXCEPT ![loc[c].ring].buffer[loc[c].at + 1][1] = loc[c].data]
  /\ Goto(c, "w_hi")
  /\ UNCHANGED <<mtx, primask, reg, ret, wlog, rlog, loc>>

\* memcpy(dest, data, rb->element_size), second half
WriteHi(c) ==
  /\ MayRun(c, "w_hi")
  /\ rb' = [rb EXCEPT ![loc[c].ring].buffer[loc[c].at + 1][2] = loc[c].data]
  /\ Goto(c, "w_lock")
  /\ UNCHANGED <<mtx, primask, reg, ret, wlog, rlog, loc>>

\* Mutant of Lock: one mutex, that of ring A, serves every ring.
Lock_OneMutex(c, at, next) ==
  /\ MayRun(c, at)
  /\ MutexAvailable(mtx, MutexOf("A"), c)
  /\ mtx' = ring_mutex_lock(mtx, MutexOf("A"), c).mtx
  /\ loc' = [loc EXCEPT ![c].locked = ring_mutex_lock(mtx, MutexOf("A"), c).ok]
  /\ Goto(c, next)
  /\ UNCHANGED <<rb, primask, reg, ret, wlog, rlog>>

\* ENTER_CRITICAL_SECTION(rb->mutex): tx_mutex_get(.., TX_WAIT_FOREVER)
\* suspends the thread while another thread owns the mutex.
Lock(c, at, next) ==
  /\ MayRun(c, at)
  /\ rb[loc[c].ring].mutex # NULL => MutexAvailable(mtx, rb[loc[c].ring].mutex, c)
  /\ mtx' = ring_mutex_lock(mtx, rb[loc[c].ring].mutex, c).mtx
  /\ loc' = [loc EXCEPT ![c].locked = ring_mutex_lock(mtx, rb[loc[c].ring].mutex, c).ok]
  /\ Goto(c, next)
  /\ UNCHANGED <<rb, primask, reg, ret, wlog, rlog>>

\* the load of a read-modify-write of rb->head, rb->tail or rb->count
Load(c, at, next, field) ==
  /\ MayRun(c, at)
  /\ loc' = [loc EXCEPT ![c].tmp = rb[loc[c].ring][field]]
  /\ Goto(c, next)
  /\ UNCHANGED <<rb, mtx, primask, reg, ret, wlog, rlog>>

\* rb->head = (rb->head + 1) % rb->size;  rb->tail likewise
StoreCursor(c, at, next, field) ==
  /\ MayRun(c, at)
  /\ rb' = [rb EXCEPT ![loc[c].ring][field] = (loc[c].tmp + 1) % rb[loc[c].ring].size]
  /\ Goto(c, next)
  /\ UNCHANGED <<mtx, primask, reg, ret, wlog, rlog, loc>>

\* rb->count++;  rb->count--;
StoreCount(c, at, next, delta) ==
  /\ MayRun(c, at)
  /\ rb' = [rb EXCEPT ![loc[c].ring].count = U32(loc[c].tmp + delta + UINT_MOD)]
  /\ Goto(c, next)
  /\ UNCHANGED <<mtx, primask, reg, ret, wlog, rlog, loc>>

\* EXIT_CRITICAL_SECTION(rb->mutex); return true;
WriteUnlock(c) ==
  /\ MayRun(c, "w_unlock")
  /\ mtx' = ring_mutex_unlock(mtx, rb[loc[c].ring].mutex, c).mtx
  /\ Goto(c, "idle")
  /\ loc' = [loc EXCEPT ![c] = [Local0 EXCEPT !.left = loc[c].left, !.ring = loc[c].ring]]
  /\ UNCHANGED <<rb, primask, reg, ret, wlog, rlog>>

WriteLock(c) == Lock(c, "w_lock", "w_head_ld")
WriteHeadLoad(c) == Load(c, "w_head_ld", "w_head_st", "head")
WriteHeadStore(c) == StoreCursor(c, "w_head_st", "w_count_ld", "head")
WriteCountLoad(c) == Load(c, "w_count_ld", "w_count_st", "count")
WriteCountStore(c) == StoreCount(c, "w_count_st", "w_unlock", 1)

\* if (rb == NULL || RingBuffer_IsEmpty(rb)) return false;
ReadCheck(c) ==
  /\ MayStart(c)
  /\ loc' = [loc EXCEPT ![c].left = @ - 1]
  /\ IF RingBuffer_IsEmpty(rb[loc[c].ring]) THEN UNCHANGED pc ELSE Goto(c, "r_src")
  /\ UNCHANGED <<rb, mtx, primask, reg, ret, wlog, rlog>>

\* void *src = (uint8_t *)rb->buffer + (rb->tail * rb->element_size);
ReadSrc(c) ==
  /\ MayRun(c, "r_src")
  /\ loc' = [loc EXCEPT ![c].at = rb[loc[c].ring].tail]
  /\ Goto(c, "r_lo")
  /\ UNCHANGED <<rb, mtx, primask, reg, ret, wlog, rlog>>

\* memcpy(data, src, rb->element_size), first half
ReadLo(c) ==
  /\ MayRun(c, "r_lo")
  /\ loc' = [loc EXCEPT ![c].lo = Slot(rb[loc[c].ring], loc[c].at)[1]]
  /\ Goto(c, "r_hi")
  /\ UNCHANGED <<rb, mtx, primask, reg, ret, wlog, rlog>>

\* memcpy(data, src, rb->element_size), second half
ReadHi(c) ==
  /\ MayRun(c, "r_hi")
  /\ loc' = [loc EXCEPT ![c].hi = Slot(rb[loc[c].ring], loc[c].at)[2]]
  /\ Goto(c, "r_lock")
  /\ UNCHANGED <<rb, mtx, primask, reg, ret, wlog, rlog>>

ReadLock(c) == Lock(c, "r_lock", "r_tail_ld")
ReadTailLoad(c) == Load(c, "r_tail_ld", "r_tail_st", "tail")
ReadTailStore(c) == StoreCursor(c, "r_tail_st", "r_count_ld", "tail")
ReadCountLoad(c) == Load(c, "r_count_ld", "r_count_st", "count")
ReadCountStore(c) == StoreCount(c, "r_count_st", "r_unlock", -1)

\* EXIT_CRITICAL_SECTION(rb->mutex); return true;  the caller now has the
\* element in *data
ReadUnlock(c) ==
  /\ MayRun(c, "r_unlock")
  /\ mtx' = ring_mutex_unlock(mtx, rb[loc[c].ring].mutex, c).mtx
  /\ Goto(c, "idle")
  /\ rlog' = Append(rlog, <<loc[c].lo, loc[c].hi>>)
  /\ loc' = [loc EXCEPT ![c] = [Local0 EXCEPT !.left = loc[c].left, !.ring = loc[c].ring]]
  /\ UNCHANGED <<rb, primask, reg, ret, wlog>>

WriteStep(c) ==
  \/ WriteDest(c)
  \/ WriteLo(c)
  \/ WriteHi(c)
  \/ WriteLock(c)
  \/ WriteHeadLoad(c)
  \/ WriteHeadStore(c)
  \/ WriteCountLoad(c)
  \/ WriteCountStore(c)
  \/ WriteUnlock(c)

ReadStep(c) ==
  \/ ReadSrc(c)
  \/ ReadLo(c)
  \/ ReadHi(c)
  \/ ReadLock(c)
  \/ ReadTailLoad(c)
  \/ ReadTailStore(c)
  \/ ReadCountLoad(c)
  \/ ReadCountStore(c)
  \/ ReadUnlock(c)

Quiescent == \A c \in Ctx : pc[c] = "idle"
Writing(c) == pc[c] \in {"w_dest", "w_lo", "w_hi", "w_lock", "w_head_ld",
                         "w_head_st", "w_count_ld", "w_count_st", "w_unlock"}
Reading(c) == pc[c] \in {"r_src", "r_lo", "r_hi", "r_lock", "r_tail_ld",
                         "r_tail_st", "r_count_ld", "r_count_st", "r_unlock"}
\* between ENTER_CRITICAL_SECTION and EXIT_CRITICAL_SECTION
Mutating(c) == pc[c] \in {"w_head_ld", "w_head_st", "w_count_ld", "w_count_st",
                          "w_unlock", "r_tail_ld", "r_tail_st", "r_count_ld",
                          "r_count_st", "r_unlock"}

\* Two threads, each both writing and reading, mutex attached.
InitMP == InitShared(TRUE, MaxRace)

NextMP ==
  \/ \E c \in Task, v \in Val : WriteCheck(c, v)
  \/ \E c \in Task : ReadCheck(c)
  \/ \E c \in Task : WriteStep(c)
  \/ \E c \in Task : ReadStep(c)

SpecMP == InitMP /\ [][NextMP]_vars

\* One producer thread and one consumer thread, mutex attached.
Producer == "T1"
Consumer == "T2"
InitSPSC == InitShared(TRUE, MaxCalls)

NextSPSC ==
  \/ \E v \in Val : WriteCheck(Producer, v)
  \/ WriteStep(Producer)
  \/ ReadCheck(Consumer)
  \/ ReadStep(Consumer)

SpecSPSC == InitSPSC /\ [][NextSPSC]_vars

\* A thread and an interrupt handler on a ring with no mutex attached.
InitBare == InitShared(FALSE, MaxRace)

NextBare ==
  \/ \E c \in Callers, v \in Val : WriteCheck(c, v)
  \/ \E c \in Callers : ReadCheck(c)
  \/ \E c \in Callers : WriteStep(c)
  \/ \E c \in Callers : ReadStep(c)

SpecBare == InitBare /\ [][NextBare]_vars

\* A thread and an interrupt handler on a ring with its mutex attached:
\* tx_mutex_get fails in the handler.
InitLockedIsr == InitShared(TRUE, MaxRace)

SpecLockedIsr == InitLockedIsr /\ [][NextBare]_vars

\* A thread calling RingBuffer_Write / RingBuffer_Read while another thread
\* takes the ring's mutex for itself (ring.h: ENTER_CRITICAL_SECTION(ring.mutex)
\* by the caller) and keeps it. The calling thread is scheduled fairly.
HoldMutex(c) ==
  /\ pc[c] = "idle"
  /\ MutexAvailable(mtx, rb["A"].mutex, c)
  /\ mtx' = tx_mutex_get(mtx, rb["A"].mutex, c).mtx
  /\ Goto(c, "holding")
  /\ UNCHANGED <<rb, primask, reg, ret, wlog, rlog, loc>>

NextHeld ==
  \/ \E v \in Val : WriteCheck(Producer, v)
  \/ ReadCheck(Producer)
  \/ WriteStep(Producer)
  \/ ReadStep(Producer)
  \/ HoldMutex(Consumer)

SpecHeld ==
  /\ InitMP
  /\ [][NextHeld]_vars
  /\ WF_vars(WriteStep(Producer) \/ ReadStep(Producer))

\* ------------------------- peeks step by step, next to other calls
\* RingBuffer_PeekFront / RingBuffer_PeekBack in the order of their statements:
\* the emptiness test, the position, the two halves of the memcpy. Neither
\* function contains ENTER_CRITICAL_SECTION. ret records what the caller got.
\* if (rb == NULL || RingBuffer_IsEmpty(rb)) { return false; }
PeekCheck(c, op) ==
  /\ MayStart(c)
  /\ loc' = [loc EXCEPT ![c].left = @ - 1]
  /\ IF RingBuffer_IsEmpty(rb[loc[c].ring])
       THEN /\ ret' = [op |-> op, ring |-> loc[c].ring, val |-> FALSE, out |-> <<>>]
            /\ UNCHANGED pc
       ELSE /\ ret' = NoCall
            /\ Goto(c, IF op = "PeekFront" THEN "pf_pos" ELSE "pb_pos")
  /\ UNCHANGED <<rb, mtx, primask, reg, wlog, rlog>>

\* uint32_t pos = rb->tail;
PeekFrontPos(c) ==
  /\ MayRun(c, "pf_pos")
  /\ loc' = [loc EXCEPT ![c].at = rb[loc[c].ring].tail, ![c].data = "PeekFront"]
  /\ Goto(c, "p_lo")
  /\ UNCHANGED <<rb, mtx, primask, reg, ret, wlog, rlog>>

\* uint32_t pos = (rb->head == 0) ? (rb->size - 1) : (rb->head - 1);
PeekBackPos(c) ==
  /\ MayRun(c, "pb_pos")
  /\ loc' = [loc EXCEPT ![c].at = IF rb[loc[c].ring].head = 0
                                    THEN rb[loc[c].ring].size - 1
                                    ELSE rb[loc[c].ring].head - 1,
                        ![c].data = "PeekBack"]
  /\ Goto(c, "p_lo")
  /\ UNCHANGED <<rb, mtx, primask, reg, ret, wlog, rlog>>

\* memcpy(data, src, rb->element_size), first half
PeekLo(c) ==
  /\ MayRun(c, "p_lo")
  /\ loc' = [loc EXCEPT ![c].lo = Slot(rb[loc[c].ring], loc[c].at)[1]]
  /\ Goto(c, "p_hi")
  /\ UNCHANGED <<rb, mtx, primask, reg, ret, wlog, rlog>>

\* memcpy(data, src, rb->element_size), second half; return true;
PeekHi(c) ==
  /\ MayRun(c, "p_hi")
  /\ ret' = [op |-> loc[c].data, ring |-> loc[c].ring, val |-> TRUE,
             out |-> <<<<loc[c].lo, Slot(rb[loc[c].ring], loc[c].at)[2]>>>>]
  /\ loc' = [loc EXCEPT ![c] = [Local0 EXCEPT !.left = loc[c].left, !.ring = loc[c].ring]]
  /\ Goto(c, "idle")
  /\ UNCHANGED <<rb, mtx, primask, reg, wlog, rlog>>

Peeking(c) == pc[c] \in {"pf_pos", "pb_pos", "p_lo", "p_hi"}

\* SpecPeekMP: one thread peeks at ring A while another thread writes and
\* reads it; the ring has its mutex attached.
InitPeekMP == InitShared(TRUE, MaxRace)

NextPeekMP ==
  \/ \E op \in {"PeekFront", "PeekBack"} : PeekCheck(Producer, op)
  \/ PeekFrontPos(Producer)
  \/ PeekBackPos(Producer)
  \/ PeekLo(Producer)
  \/ PeekHi(Producer)
  \/ \E v \in Val : WriteCheck(Consumer, v)
  \/ WriteStep(Consumer)
  \/ ReadCheck(Consumer)
  \/ ReadStep(Consumer)

SpecPeekMP == InitPeekMP /\ [][NextPeekMP]_vars

\* ------------------------- transfers step by step, next to other calls
\* The locals of a thread inside RingBuffer_DumpToRing(Limited): its
\* arguments, elements_to_copy, src_tail, dst_head and copied_count. The
\* critical section of both functions names rb->mutex, and rb is neither
\* parameter: which ring's mutex the build takes is fixed for the build
\* (which: "src" or "dst").
Dump0(s, d, calls, which) ==
  [src |-> s, dst |-> d, preserve_source |-> FALSE, elements_to_copy |-> 0,
   src_tail |-> 0, dst_head |-> 0, copied_count |-> 0, left |-> calls,
   which |-> which]

DumpMutex(c) ==
  IF loc[c].which = "src" THEN rb[loc[c].src].mutex ELSE rb[loc[c].dst].mutex

Dumping(c) == pc[c] \in {"d_copy", "d_lock", "d_src", "d_dst", "d_unlock"}

\* From the entry of the function to the start of the copy loop, with
\* elements_to_copy as the function computed it.
DumpEnter(c, elements_to_copy, p) ==
  /\ MayStart(c)
  /\ IF \/ rb[loc[c].src].element_size # rb[loc[c].dst].element_size
        \/ RingBuffer_Available(rb, loc[c].src) = 0
        \/ elements_to_copy = 0
       THEN /\ loc' = [loc EXCEPT ![c].left = @ - 1]
            /\ UNCHANGED pc
       ELSE /\ loc' = [loc EXCEPT ![c].left = @ - 1,
                                  ![c].preserve_source = p,
                                  ![c].elements_to_copy = elements_to_copy,
                                  ![c].src_tail = rb[loc[c].src].tail,
                                  ![c].dst_head = rb[loc[c].dst].head,
                                  ![c].copied_count = 0]
            /\ Goto(c, "d_copy")
  /\ UNCHANGED <<rb, mtx, primask, reg, ret, wlog, rlog>>

\* RingBuffer_DumpToRing up to uint32_t dst_head = dst_rb->head;
DumpCheck(c, p) ==
  DumpEnter(c, Min(RingBuffer_Available(rb, loc[c].src),
                   RingBuffer_Free(rb, loc[c].dst)), p)

\* RingBuffer_DumpToRingLimited up to uint32_t dst_head = dst_rb->head;
DumpLimitedCheck(c, max_count, p) ==
  /\ max_count # 0
  /\ DumpEnter(c, Min(Min(RingBuffer_Available(rb, loc[c].src), max_count),
                      RingBuffer_Free(rb, loc[c].dst)), p)

\* while (copied_count < elements_to_copy) { ... memcpy ... }
DumpCopy(c) ==
  LET st == DumpLoop([rb |-> rb, copied_count |-> 0, src_tail |-> loc[c].src_tail,
                      dst_head |-> loc[c].dst_head, chunks |-> 0],
                     loc[c].src, loc[c].dst, loc[c].elements_to_copy)
  IN /\ MayRun(c, "d_copy")
     /\ rb' = st.rb
     /\ loc' = [loc EXCEPT ![c].src_tail = st.src_tail,
                           ![c].dst_head = st.dst_head,
                           ![c].copied_count = st.copied_count]
     /\ Goto(c, "d_lock")
     /\ UNCHANGED <<mtx, primask, reg, ret, wlog, rlog>>

\* Mutant of DumpLock: the source's mutex is taken, then the destination's.
DumpLock_SourceThenDestination(c) ==
  /\ MayRun(c, "d_lock")
  /\ IF mtx[rb[loc[c].src].mutex].owner # c
       THEN /\ MutexAvailable(mtx, rb[loc[c].src].mutex, c)
            /\ mtx' = ring_mutex_lock(mtx, rb[loc[c].src].mutex, c).mtx
            /\ UNCHANGED pc
       ELSE /\ MutexAvailable(mtx, rb[loc[c].dst].mutex, c)
            /\ mtx' = ring_mutex_lock(mtx, rb[loc[c].dst].mutex, c).mtx
            /\ Goto(c, "d_src")
  /\ UNCHANGED <<rb, primask, reg, ret, wlog, rlog, loc>>

\* ENTER_CRITICAL_SECTION(rb->mutex);
DumpLock(c) ==
  /\ MayRun(c, "d_lock")
  /\ DumpMutex(c) # NULL => MutexAvailable(mtx, DumpMutex(c), c)
  /\ mtx' = ring_mutex_lock(mtx, DumpMutex(c), c).mtx
  /\ Goto(c, "d_src")
  /\ UNCHANGED <<rb, primask, reg, ret, wlog, rlog, loc>>

\* if (!preserve_source) { src_rb->tail = src_tail; src_rb->count -= ... }
DumpSrc(c) ==
  LET s == loc[c].src
  IN /\ MayRun(c, "d_src")
     /\ rb' = IF loc[c].preserve_source THEN rb
              ELSE [rb EXCEPT ![s].tail = loc[c].src_tail,
                              ![s].count = IF rb[s].count >= loc[c].copied_count
                                           THEN rb[s].count - loc[c].copied_count
                                           ELSE 0]
     /\ Goto(c, "d_dst")
     /\ UNCHANGED <<mtx, primask, reg, ret, wlog, rlog, loc>>

\* dst_rb->head = dst_head; dst_rb->count = new_count, clamped to size
DumpDst(c) ==
  LET d == loc[c].dst
      new_count == U32(rb[d].count + loc[c].copied_count)
  IN /\ MayRun(c, "d_dst")
     /\ rb' = [rb EXCEPT ![d].head = loc[c].dst_head,
                         ![d].count = IF new_count <= rb[d].size THEN new_count
                                      ELSE rb[d].size]
     /\ Goto(c, "d_unlock")
     /\ UNCHANGED <<mtx, primask, reg, ret, wlog, rlog, loc>>

\* EXIT_CRITICAL_SECTION(rb->mutex); return copied_count;
DumpUnlock(c) ==
  /\ MayRun(c, "d_unlock")
  /\ mtx' = ring_mutex_unlock(mtx, DumpMutex(c), c).mtx
  /\ Goto(c, "idle")
  /\ UNCHANGED <<rb, primask, reg, ret, wlog, rlog, loc>>

DumpStep(c) ==
  \/ DumpCopy(c)
  \/ DumpLock(c)
  \/ DumpSrc(c)
  \/ DumpDst(c)
  \/ DumpUnlock(c)

\* A ring of capacity n that was written k times (slot i holds Elem(i)), with
\* its own mutex attached.
Prefilled(r, n, k) ==
  [RingBuffer_Init([i \in 1..n |-> IF i <= k THEN Elem(i) ELSE Elem(Junk)], n, 4)
     EXCEPT !.head = k % n, !.count = k, !.mutex = MutexOf(r)]

\* SpecXfer: one thread transfers from ring A to ring B while another thread
\* writes and reads ring B; each ring has its own mutex attached.
InitXfer ==
  /\ \E n \in 1..MaxSize, k \in 1..MaxSize, which \in {"src", "dst"} :
       /\ k <= n
       /\ rb = [r \in Ring |-> IF r = "A" THEN Prefilled(r, n, k)
                               ELSE Prefilled(r, MaxSize, 0)]
       /\ loc = [c \in Ctx |->
                   IF c = Producer THEN Dump0("A", "B", MaxRace, which)
                   ELSE [Local0 EXCEPT !.left = MaxRace, !.ring = "B"]]
  /\ mtx = [r \in Ring |-> [owner |-> NoOwner, cnt |-> 0]]
  /\ primask = 0
  /\ reg = Reg0
  /\ ret = NoCall
  /\ wlog = <<>>
  /\ rlog = <<>>
  /\ pc = [c \in Ctx |-> "idle"]

NextXfer ==
  \/ \E p \in BOOLEAN : DumpCheck(Producer, p)
  \/ \E n \in Limits, p \in BOOLEAN : DumpLimitedCheck(Producer, n, p)
  \/ DumpStep(Producer)
  \/ \E v \in Payload : WriteCheck(Consumer, v)
  \/ WriteStep(Consumer)
  \/ ReadCheck(Consumer)
  \/ ReadStep(Consumer)

SpecXfer == InitXfer /\ [][NextXfer]_vars

\* SpecCross: two threads each make one transfer, in opposite directions,
\* between rings A and B, each ring with its own mutex attached; both threads
\* are scheduled fairly.
InitCross ==
  /\ \E n \in 1..MaxSize, k \in 0..MaxSize, which \in {"src", "dst"} :
       /\ k <= n
       /\ rb = [r \in Ring |-> IF r = "A" THEN Prefilled(r, n, k)
                               ELSE Prefilled(r, MaxSize, 1)]
       /\ loc = [c \in Ctx |->
                   IF c = Producer THEN Dump0("A", "B", 1, which)
                   ELSE Dump0("B", "A", 1, which)]
  /\ mtx = [r \in Ring |-> [owner |-> NoOwner, cnt |-> 0]]
  /\ primask = 0
  /\ reg = Reg0
  /\ ret = NoCall
  /\ wlog = <<>>
  /\ rlog = <<>>
  /\ pc = [c \in Ctx |-> "idle"]

NextCross ==
  \/ \E c \in Task, p \in BOOLEAN : DumpCheck(c, p)
  \/ \E c \in Task, n \in Limits, p \in BOOLEAN : DumpLimitedCheck(c, n, p)
  \/ \E c \in Task : DumpStep(c)

SpecCross ==
  /\ InitCross
  /\ [][NextCross]_vars
  /\ \A c \in Task : WF_vars(DumpStep(c))

\* SpecLoop: one thread makes one transfer from ring A to ring B, the copy
\* loop taken one iteration per step. The rings are of capacity 1..MaxCap with
\* the cursors anywhere a sequence of writes and reads can leave them; slot i
\* of ring A holds i. wlog is the chunk_size of each iteration so far. The
\* thread is scheduled fairly.
\* Mutant of DumpIter: src_tail is not wrapped at the end of the storage.
DumpIter_NoSrcWrap(c) ==
  LET s == loc[c].src
      d == loc[c].dst
      src_chunk == rb[s].size - loc[c].src_tail
      dst_chunk == rb[d].size - loc[c].dst_head
      remaining == loc[c].elements_to_copy - loc[c].copied_count
      chunk_size == Min(Min(remaining, src_chunk), dst_chunk)
  IN /\ MayRun(c, "d_copy")
     /\ loc[c].copied_count < loc[c].elements_to_copy
     /\ Len(wlog) < MaxLog
     /\ rb' = [rb EXCEPT ![d].buffer = Memcpy(rb[d].buffer, loc[c].dst_head,
                                              rb[s].buffer, loc[c].src_tail, chunk_size)]
     /\ loc' = [loc EXCEPT ![c].copied_count = U32(@ + chunk_size),
                           ![c].src_tail = @ + chunk_size,
                           ![c].dst_head = (@ + chunk_size) % rb[d].size]
     /\ wlog' = Append(wlog, chunk_size)
     /\ UNCHANGED <<mtx, primask, reg, ret, rlog, pc>>

\* One iteration of while (copied_count < elements_to_copy) { ... }
DumpIter(c) ==
  LET s == loc[c].src
      d == loc[c].dst
      src_chunk == rb[s].size - loc[c].src_tail
      dst_chunk == rb[d].size - loc[c].dst_head
      remaining == loc[c].elements_to_copy - loc[c].copied_count
      chunk_size == Min(Min(remaining, src_chunk), dst_chunk)
  IN /\ MayRun(c, "d_copy")
     /\ loc[c].copied_count < loc[c].elements_to_copy
     /\ Len(wlog) < MaxLog
     /\ rb' = [rb EXCEPT ![d].buffer = Memcpy(rb[d].buffer, loc[c].dst_head,
                                              rb[s].buffer, loc[c].src_tail, chunk_size)]
     /\ loc' = [loc EXCEPT ![c].copied_count = U32(@ + chunk_size),
                           ![c].src_tail = (@ + chunk_size) % rb[s].size,
                           ![c].dst_head = (@ + chunk_size) % rb[d].size]
     /\ wlog' = Append(wlog, chunk_size)
     /\ UNCHANGED <<mtx, primask, reg, ret, rlog, pc>>

\* The loop condition found false: on to the critical section.
DumpLoopExit(c) ==
  /\ MayRun(c, "d_copy")
  /\ ~(loc[c].copied_count < loc[c].elements_to_copy)
  /\ Goto(c, "d_lock")
  /\ UNCHANGED <<rb, mtx, primask, reg, ret, wlog, rlog, loc>>

\* A ring of capacity n holding k elements from slot t on.
Positioned(r, n, t, k, buf) ==
  [RingBuffer_Init(buf, n, 4)
     EXCEPT !.tail = t, !.head = (t + k) % n, !.count = k, !.mutex = MutexOf(r)]

InitLoop ==
  /\ \E na \in 1..MaxCap, nb \in 1..MaxCap, which \in {"src", "dst"} :
       \E ta \in 0..(na - 1), ka \in 0..na, tb \in 0..(nb - 1), kb \in 0..nb :
         /\ rb = [r \in Ring |->
                    IF r = "A" THEN Positioned(r, na, ta, ka, [i \in 1..na |-> i])
                    ELSE Positioned(r, nb, tb, kb, [i \in 1..nb |-> Junk])]
         /\ loc = [c \in Ctx |-> Dump0("A", "B", 1, which)]
  /\ mtx = [r \in Ring |-> [owner |-> NoOwner, cnt |-> 0]]
  /\ primask = 0
  /\ reg = Reg0
  /\ ret = NoCall
  /\ wlog = <<>>
  /\ rlog = <<>>
  /\ pc = [c \in Ctx |-> "idle"]

LoopStep(c) ==
  \/ DumpIter(c)
  \/ DumpLoopExit(c)
  \/ DumpLock(c)
  \/ DumpSrc(c)
  \/ DumpDst(c)
  \/ DumpUnlock(c)

NextLoop ==
  \/ \E p \in BOOLEAN : DumpCheck(Producer, p)
  \/ \E n \in Limits, p \in BOOLEAN : DumpLimitedCheck(Producer, n, p)
  \/ LoopStep(Producer)

SpecLoop == InitLoop /\ [][NextLoop]_vars /\ WF_vars(LoopStep(Producer))

\* ---------------- SpecReg: threads using a mutex through the registry
\* Each thread runs manual_mutex_example: create, take, the critical
\* section, give, delete; meanwhile the application may register or
\* unregister the provider and set or clear the RTOS-ready flag.
NoHandle == [h |-> NULL, res |-> MUTEX_OK]

InitReg ==
  /\ \E sz \in [Ring -> 1..MaxSize] : InitRings(sz, [r \in Ring |-> 4])
  /\ mtx = [r \in Ring |-> [owner |-> NoOwner, cnt |-> 0]]
  /\ primask = 0
  /\ reg = Reg0
  /\ ret = NoCall
  /\ wlog = <<>>
  /\ rlog = <<>>
  /\ pc = [c \in Ctx |-> "idle"]
  /\ loc = [c \in Ctx |-> NoHandle]

RegOnly == UNCHANGED <<rb, primask, ret, wlog, rlog>>

SetReady(status) ==
  /\ reg' = utilities_set_RTOS_ready(reg, status)
  /\ UNCHANGED <<mtx, pc, loc>>
  /\ RegOnly

Register(callbacks) ==
  /\ reg' = utilities_register_cs_cbs(reg, callbacks)
  /\ UNCHANGED <<mtx, pc, loc>>
  /\ RegOnly

\* mutex_result_t result = utilities_mutex_create(&my_custom_mutex);
\* if (result != MUTEX_OK) return;
ClientCreate(c, h) ==
  /\ pc[c] = "idle"
  /\ LET r == utilities_mutex_create(reg, h)
     IN /\ reg' = r.reg
        /\ IF r.handle = NULL
             THEN UNCHANGED <<pc, loc>>
             ELSE /\ Goto(c, "m_take")
                  /\ loc' = [loc EXCEPT ![c].h = r.handle]
  /\ UNCHANGED mtx
  /\ RegOnly

\* result = utilities_mutex_take(my_custom_mutex, 500);
ClientTake(c) ==
  /\ pc[c] = "m_take"
  /\ LET r == utilities_mutex_take(reg, mtx, loc[c].h, c)
     IN /\ reg' = r.reg
        /\ mtx' = r.mtx
        /\ loc' = [loc EXCEPT ![c].res = r.res]
        /\ Goto(c, IF r.res = MUTEX_OK THEN "m_cs" ELSE "m_delete")
  /\ RegOnly

\* shared_data.value++;  utilities_mutex_give(my_custom_mutex);
ClientGive(c) ==
  /\ pc[c] = "m_cs"
  /\ LET r == utilities_mutex_give(reg, mtx, loc[c].h, c)
     IN /\ reg' = r.reg
        /\ mtx' = r.mtx
        /\ loc' = [loc EXCEPT ![c].res = r.res]
  /\ Goto(c, "m_delete")
  /\ RegOnly

\* utilities_mutex_delete(my_custom_mutex);
ClientDelete(c) ==
  /\ pc[c] = "m_delete"
  /\ LET r == utilities_mutex_delete(reg, mtx, loc[c].h)
     IN /\ reg' = r.reg
        /\ mtx' = r.mtx
  /\ loc' = [loc EXCEPT ![c] = NoHandle]
  /\ Goto(c, "idle")
  /\ RegOnly

\* The blocks byte_allocate may return: one not in use, or NULL.
FreeBlocks == (Ring \ reg.created) \cup {NULL}

NextReg ==
  \/ \E b \in BOOLEAN : SetReady(b)
  \/ \E p \in {NULL, mutex_callbacks} : Register(p)
  \/ \E c \in Task, h \in FreeBlocks : ClientCreate(c, h)
  \/ \E c \in Task : ClientTake(c)
  \/ \E c \in Task : ClientGive(c)
  \/ \E c \in Task : ClientDelete(c)

SpecReg == InitReg /\ [][NextReg]_vars

\* Two rings, each with its own mutex attached: one thread writes and reads
\* ring A, the other ring B (example_independent_synchronization).
InitSplit ==
  /\ \E n \in 1..MaxSize :
       rb = [r \in Ring |->
               RingBuffer_AttachMutex(
                 [x \in {r} |-> RingBuffer_Init([i \in 1..n |-> Elem(Junk)], n, 4)],
                 r, MutexOf(r)).rb[r]]
  /\ mtx = [r \in Ring |-> [owner |-> NoOwner, cnt |-> 0]]
  /\ primask = 0
  /\ reg = Reg0
  /\ ret = NoCall
  /\ wlog = <<>>
  /\ rlog = <<>>
  /\ pc = [c \in Ctx |-> "idle"]
  /\ loc = [c \in Ctx |-> [Local0 EXCEPT !.left = MaxRace,
                                         !.ring = IF c = Consumer THEN "B" ELSE "A"]]

NextSplit ==
  \/ \E c \in Task, v \in Payload : WriteCheck(c, v)
  \/ \E c \in Task : ReadCheck(c)
  \/ \E c \in Task : WriteStep(c)
  \/ \E c \in Task : ReadStep(c)

SpecSplit == InitSplit /\ [][NextSplit]_vars

\* ------------------- SpecGate: the registry functions called directly
\* Two threads call utilities_mutex_create, _take, _give and _delete in any
\* order, on NULL or on a handle that was created, while the application
\* registers or unregisters the provider and sets or clears the RTOS-ready
\* flag. ret records each call: the caller (ring), the handle passed (arg) and
\* the value returned (val); reg.cb is the provider callback the call invoked.
Handles == reg.created \cup {NULL}

Gate(op, c, m, val) ==
  /\ ret' = [op |-> op, ring |-> c, arg |-> m, val |-> val, out |-> <<>>]
  /\ UNCHANGED <<rb, primask, wlog, rlog, pc, loc>>

GateSetReady(status) ==
  /\ reg' = utilities_set_RTOS_ready(reg, status)
  /\ UNCHANGED mtx
  /\ Gate("set_RTOS_ready", Main, NULL, status)

GateRegister(callbacks) ==
  /\ reg' = utilities_register_cs_cbs(reg, callbacks)
  /\ UNCHANGED mtx
  /\ Gate("register_cs_cbs", Main, NULL, callbacks)

GateCreate(c, h) ==
  LET r == utilities_mutex_create(reg, h)
  IN /\ reg' = r.reg
     /\ UNCHANGED mtx
     /\ Gate("create", c, h, r.handle)

GateTake(c, m) ==
  LET r == utilities_mutex_take(reg, mtx, m, c)
  IN /\ m # NULL => mtx[m].cnt < MaxCalls
     /\ reg' = r.reg
     /\ mtx' = r.mtx
     /\ Gate("take", c, m, r.res)

GateGive(c, m) ==
  LET r == utilities_mutex_give(reg, mtx, m, c)
  IN /\ reg' = r.reg
     /\ mtx' = r.mtx
     /\ Gate("give", c, m, r.res)

GateDelete(c, m) ==
  LET r == utilities_mutex_delete(reg, mtx, m)
  IN /\ reg' = r.reg
     /\ mtx' = r.mtx
     /\ Gate("delete", c, m, r.res)

NextGate ==
  \/ \E b \in BOOLEAN : GateSetReady(b)
  \/ \E p \in {NULL, mutex_callbacks} : GateRegister(p)
  \/ \E c \in Task, h \in FreeBlocks : GateCreate(c, h)
  \/ \E c \in Task, m \in Handles : GateTake(c, m)
  \/ \E c \in Task, m \in Handles : GateGive(c, m)
  \/ \E c \in Task, m \in Handles : GateDelete(c, m)

SpecGate == InitReg /\ [][NextGate]_vars

\* ------------- SpecUnreg: ring calls while the registration changes
\* The system after the RTOS has started: provider registered, RTOS ready,
\* ring A's mutex created by the provider and attached. One thread writes
\* and reads ring A, another uses a mutex of its own through the registry,
\* and between ring calls the application registers a provider or none and
\* sets or clears the RTOS-ready flag.
InitUnreg ==
  /\ \E n \in 1..MaxSize :
       rb = [r \in Ring |->
               LET size == IF r = "A" THEN n ELSE 1
                   ring == RingBuffer_Init([i \in 1..size |-> Elem(Junk)], size, 4)
               IN IF r = "A" THEN RingBuffer_AttachMutex([x \in {r} |-> ring], r, MutexOf(r)).rb[r]
                  ELSE ring]
  /\ mtx = [r \in Ring |-> [owner |-> NoOwner, cnt |-> 0]]
  /\ primask = 0
  /\ reg = [cs_callbacks |-> mutex_callbacks, RTOS_READY |-> TRUE,
            created |-> {MutexOf("A")}, cb |-> "none"]
  /\ ret = NoCall
  /\ wlog = <<>>
  /\ rlog = <<>>
  /\ pc = [c \in Ctx |-> "idle"]
  /\ loc = [c \in Ctx |-> IF c = Producer THEN [Local0 EXCEPT !.left = MaxRace]
                          ELSE NoHandle]

NextUnreg ==
  \/ \E b \in BOOLEAN : pc[Producer] = "idle" /\ SetReady(b)
  \/ \E p \in {NULL, mutex_callbacks} : pc[Producer] = "idle" /\ Register(p)
  \/ \E v \in Val : WriteCheck(Producer, v)
  \/ ReadCheck(Producer)
  \/ WriteStep(Producer)
  \/ ReadStep(Producer)
  \/ \E h \in FreeBlocks : ClientCreate(Consumer, h)
  \/ ClientTake(Consumer)
  \/ ClientGive(Consumer)
  \/ ClientDelete(Consumer)

SpecUnreg == InitUnreg /\ [][NextUnreg]_vars

\* ------------- SpecLazy: first use of a ring that has no mutex yet
\* Provider registered and RTOS ready; ring A fresh from RingBuffer_Init
\* (mutex NULL). Two threads each make their first call on it, a write or a
\* read. ring.c creates no mutex, so
\* a thread gives the ring one the way ring.h documents (create the mutex,
\* then RingBuffer_AttachMutex), after checking that none is attached.
InitLazy ==
  /\ \E n \in 1..MaxSize :
       rb = [r \in Ring |->
               RingBuffer_Init([i \in 1..(IF r = "A" THEN n ELSE 1) |-> Elem(Junk)],
                               IF r = "A" THEN n ELSE 1, 4)]
  /\ mtx = [r \in Ring |-> [owner |-> NoOwner, cnt |-> 0]]
  /\ primask = 0
  /\ reg = [cs_callbacks |-> mutex_callbacks, RTOS_READY |-> TRUE,
            created |-> {}, cb |-> "none"]
  /\ ret = NoCall
  /\ wlog = <<>>
  /\ rlog = <<>>
  /\ pc = [c \in Ctx |-> "idle"]
  /\ loc = [c \in Ctx |-> [Local0 EXCEPT !.left = 1]]

\* if (ring.mutex == NULL)
SetupCheck(c) ==
  /\ pc[c] = "idle"
  /\ rb["A"].mutex = NULL
  /\ Goto(c, "s_create")
  /\ UNCHANGED <<rb, mtx, primask, reg, ret, wlog, rlog, loc>>

\* mutex = utilities_mutex_create();
SetupCreate(c, h) ==
  /\ pc[c] = "s_create"
  /\ LET r == utilities_mutex_create(reg, h)
     IN /\ reg' = r.reg
        /\ loc' = [loc EXCEPT ![c].h = r.handle]
        /\ Goto(c, IF r.handle = NULL THEN "idle" ELSE "s_attach")
  /\ UNCHANGED <<rb, mtx, primask, ret, wlog, rlog>>

\* RingBuffer_AttachMutex(&ring, mutex);
SetupAttach(c) ==
  /\ pc[c] = "s_attach"
  /\ rb' = RingBuffer_AttachMutex(rb, "A", loc[c].h).rb
  /\ loc' = [loc EXCEPT ![c].h = NULL]
  /\ Goto(c, "idle")
  /\ UNCHANGED <<mtx, primask, reg, ret, wlog, rlog>>

NextLazy ==
  \/ \E c \in Task, v \in Val : WriteCheck(c, v)
  \/ \E c \in Task : ReadCheck(c)
  \/ \E c \in Task : WriteStep(c)
  \/ \E c \in Task : ReadStep(c)
  \/ \E c \in Task : SetupCheck(c)
  \/ \E c \in Task, h \in FreeBlocks : SetupCreate(c, h)
  \/ \E c \in Task : SetupAttach(c)

SpecLazy == InitLazy /\ [][NextLazy]_vars

\* ------------------------------- SpecLife: rings created and destroyed
\* The main thread initializes the two ring structures on caller-supplied
\* storage (RingBuffer_Init) or on allocated storage (RingBuffer_InitDynamic,
\* with every argument the code tests for and an allocator that may fail),
\* asks RingBuffer_OwnsBuffer, creates a mutex through the registered provider
\* and attaches it, and destroys the rings, in any order. rb[r].buffer is the
\* pointer the structure holds, not what the storage contains. wlog is the
\* allocator's state, the set of blocks malloc returned and free has not
\* taken back; rlog is the set of pointers handed to free that were no such
\* block. ret records each call with its arguments (arg) and, for
\* RingBuffer_Destroy, the pointer handed to free (out).
Blocks == {"m1", "m2"}
\* The caller-supplied array a ring is initialized on.
Static(r) == IF r = "A" THEN "arrayA" ELSE "arrayB"
Sizes == 0..MaxSize
ElemSizes == {0, 4}

InitLife ==
  /\ rb = [r \in Ring |-> Inert]
  /\ mtx = [r \in Ring |-> [owner |-> NoOwner, cnt |-> 0]]
  /\ primask = 0
  /\ reg = [cs_callbacks |-> mutex_callbacks, RTOS_READY |-> TRUE,
            created |-> {}, cb |-> "none"]
  /\ ret = NoCall
  /\ wlog = {}
  /\ rlog = {}
  /\ pc = [c \in Ctx |-> "idle"]
  /\ loc = [c \in Ctx |-> <<>>]

LifeFrame == UNCHANGED <<mtx, primask, pc, loc>>

LifeInit(r, size) ==
  /\ rb' = [rb EXCEPT ![r] = RingBuffer_Init(Static(r), size, 4)]
  /\ ret' = [op |-> "Init", ring |-> r, val |-> TRUE, out |-> <<>>,
             arg |-> <<size, 4, Static(r)>>]
  /\ UNCHANGED <<reg, wlog, rlog>>
  /\ LifeFrame

LifeInitDynamic(r, size, element_size, block) ==
  LET res == RingBuffer_InitDynamic(rb, r, size, element_size, block)
  IN /\ block \notin wlog
     /\ rb' = res.rb
     /\ wlog' = IF res.malloc /\ block # NULL THEN wlog \cup {block} ELSE wlog
     /\ ret' = [op |-> "InitDynamic", ring |-> r, val |-> res.ret, out |-> <<>>,
                arg |-> <<size, element_size, block>>]
     /\ UNCHANGED <<reg, rlog>>
     /\ LifeFrame

\* The caller creates a mutex through the provider and attaches it.
LifeAttach(r, h) ==
  LET made == utilities_mutex_create(reg, h)
  IN /\ reg' = made.reg
     /\ rb' = IF made.handle = NULL THEN rb
              ELSE RingBuffer_AttachMutex(rb, r, made.handle).rb
     /\ ret' = [op |-> "AttachMutex", ring |-> r, val |-> made.handle # NULL,
                out |-> <<>>, arg |-> <<h>>]
     /\ UNCHANGED <<wlog, rlog>>
     /\ LifeFrame

LifeOwnsBuffer(r) ==
  /\ ret' = [op |-> "OwnsBuffer", ring |-> r, val |-> RingBuffer_OwnsBuffer(rb, r),
             out |-> <<>>, arg |-> <<>>]
  /\ UNCHANGED <<rb, reg, wlog, rlog>>
  /\ LifeFrame

LifeDestroy(r) ==
  LET res == RingBuffer_Destroy(rb, r)
  IN /\ rb' = res.rb
     /\ wlog' = wlog \ {res.freed}
     /\ rlog' = IF res.freed = NULL \/ res.freed \in wlog THEN rlog
                ELSE rlog \cup {res.freed}
     /\ ret' = [op |-> "Destroy", ring |-> r, val |-> TRUE, out |-> <<res.freed>>,
                arg |-> <<>>]
     /\ UNCHANGED reg
     /\ LifeFrame

NextLife ==
  \/ \E r \in Ring, size \in Sizes \ {0} : LifeInit(r, size)
  \/ \E r \in RingOrNull, size \in Sizes, es \in ElemSizes, b \in Blocks \cup {NULL} :
       LifeInitDynamic(r, size, es, b)
  \/ \E r \in Ring, h \in FreeBlocks : LifeAttach(r, h)
  \/ \E r \in RingOrNull : LifeOwnsBuffer(r)
  \/ \E r \in RingOrNull : LifeDestroy(r)

SpecLife == InitLife /\ [][NextLife]_vars

\* ------------------------ SpecDead: calls on rings that were destroyed
\* The main thread initializes and destroys ring A (capacity 1..MaxSize) and
\* ring B (capacity 1), with or without a mutex attached, and between these
\* makes every call that never overwrites: the single-ring calls on ring A,
\* the transfers between A and B in both directions. ret records each call
\* with the rings it was given (ring, and peer for the destination of a
\* transfer); rlog is the set of rings destroyed and not initialized since.
DeadFrame == UNCHANGED <<primask, reg, wlog, pc, loc>>

DeadInit(r, size, m) ==
  /\ rb' = RingBuffer_AttachMutex(
             [rb EXCEPT ![r] = RingBuffer_Init([i \in 1..size |-> Junk], size, 4)],
             r, m).rb
  /\ ret' = [op |-> "Init", ring |-> r, peer |-> r, val |-> TRUE, out |-> <<>>]
  /\ rlog' = rlog \ {r}
  /\ UNCHANGED mtx
  /\ DeadFrame

DeadDestroy(r) ==
  /\ rb' = RingBuffer_Destroy(rb, r).rb
  /\ ret' = [op |-> "Destroy", ring |-> r, peer |-> r, val |-> TRUE, out |-> <<>>]
  /\ rlog' = rlog \cup {r}
  /\ UNCHANGED mtx
  /\ DeadFrame

\* A call that may change its ring.
DeadCall(op, r, res) ==
  /\ Call(res, MutexPtr(r), Main)
  /\ ret' = [op |-> op, ring |-> r, peer |-> r, val |-> res.ret, out |-> res.out]
  /\ UNCHANGED <<wlog, rlog>>

\* A peek: nothing but the caller's array is written.
DeadPeek(op, r, res) ==
  /\ ret' = [op |-> op, ring |-> r, peer |-> r, val |-> res.ret, out |-> res.out]
  /\ UNCHANGED <<rb, mtx, rlog>>
  /\ DeadFrame

DeadWrite(v) == DeadCall("Write", "A", RingBuffer_Write(rb, "A", v))
DeadRead == DeadCall("Read", "A", RingBuffer_Read(rb, "A"))
DeadWriteMultiple(d) ==
  DeadCall("WriteMultiple", "A", RingBuffer_WriteMultiple(rb, "A", TRUE, d))
DeadReadMultiple(n) ==
  DeadCall("ReadMultiple", "A", RingBuffer_ReadMultiple(rb, "A", TRUE, n))
DeadPopFront == DeadCall("PopFront", "A", RingBuffer_PopFront(rb, "A"))
DeadPopBack == DeadCall("PopBack", "A", RingBuffer_PopBack(rb, "A"))
DeadPopFrontMultiple(n) ==
  DeadCall("PopFrontMultiple", "A", RingBuffer_PopFrontMultiple(rb, "A", n))
DeadPopBackMultiple(n) ==
  DeadCall("PopBackMultiple", "A", RingBuffer_PopBackMultiple(rb, "A", n))
DeadPeekFront == DeadPeek("PeekFront", "A", RingBuffer_PeekFront(rb, "A"))
DeadPeekBack == DeadPeek("PeekBack", "A", RingBuffer_PeekBack(rb, "A"))
DeadPeekFrontMultiple(n) ==
  DeadPeek("PeekFrontMultiple", "A", RingBuffer_PeekFrontMultiple(rb, "A", TRUE, n))
DeadPeekBackMultiple(n) ==
  DeadPeek("PeekBackMultiple", "A", RingBuffer_PeekBackMultiple(rb, "A", TRUE, n))

DeadDump(s, d, p) ==
  LET res == RingBuffer_DumpToRing(rb, s, d, p)
  IN /\ DumpToRing(s, d, p, Main)
     /\ ret' = [op |-> "DumpToRing", ring |-> s, peer |-> d, val |-> res.ret,
                out |-> res.out]
     /\ UNCHANGED <<wlog, rlog>>

DeadDumpLimited(s, d, n, p) ==
  LET res == RingBuffer_DumpToRingLimited(rb, s, d, n, p)
  IN /\ DumpToRingLimited(s, d, n, p, Main)
     /\ ret' = [op |-> "DumpToRingLimited", ring |-> s, peer |-> d,
                val |-> res.ret, out |-> res.out]
     /\ UNCHANGED <<wlog, rlog>>

InitDead ==
  /\ \E n \in 1..MaxSize :
       InitRings([r \in Ring |-> IF r = "A" THEN n ELSE 1], [r \in Ring |-> 4])
  /\ mtx = [r \in Ring |-> [owner |-> NoOwner, cnt |-> 0]]
  /\ primask = 0
  /\ reg = Reg0
  /\ ret = [op |-> "none", ring |-> NULL, peer |-> NULL, val |-> FALSE, out |-> <<>>]
  /\ wlog = <<>>
  /\ rlog = {}
  /\ pc = [c \in Ctx |-> "idle"]
  /\ loc = [c \in Ctx |-> <<>>]

NextDead ==
  \/ \E n \in 1..MaxSize, m \in {NULL, MutexOf("A")} : DeadInit("A", n, m)
  \/ \E m \in {NULL, MutexOf("B")} : DeadInit("B", 1, m)
  \/ \E r \in Ring : DeadDestroy(r)
  \/ \E v \in Payload : DeadWrite(v)
  \/ DeadRead
  \/ \E d \in DataSeq(Payload, MaxBatch) : DeadWriteMultiple(d)
  \/ \E n \in Counts : DeadReadMultiple(n)
  \/ DeadPopFront
  \/ DeadPopBack
  \/ \E n \in Counts : DeadPopFrontMultiple(n)
  \/ \E n \in Counts : DeadPopBackMultiple(n)
  \/ DeadPeekFront
  \/ DeadPeekBack
  \/ \E n \in Counts : DeadPeekFrontMultiple(n)
  \/ \E n \in Counts : DeadPeekBackMultiple(n)
  \/ \E s \in Ring, p \in BOOLEAN : DeadDump(s, CHOOSE d \in Ring : d # s, p)
  \/ \E s \in Ring, n \in Limits, p \in BOOLEAN :
       DeadDumpLimited(s, CHOOSE d \in Ring : d # s, n, p)

SpecDead == InitDead /\ [][NextDead]_vars

\* ------------------------------------------------------------ properties
\* The elements a ring holds, oldest first.
Contents(r) ==
  [i \in 1..rb[r].count |-> Slot(rb[r], (rb[r].tail + i - 1) % rb[r].size)]

\* The same of a ring record.
Held(ring) ==
  [i \in 1..ring.count |-> Slot(ring, (ring.tail + i - 1) % ring.size)]

IsPrefix(p, q) == Len(p) <= Len(q) /\ SubSeq(q, 1, Len(p)) = p

LastN(q, n) == SubSeq(q, Len(q) - n + 1, Len(q))

\* C1: after every call of any sequence of RingBuffer_Write and
\* RingBuffer_Read calls (and their batch forms) on an initialized ring of
\* capacity >= 1, 0 <= count <= size.
C1_CountWithinCapacity ==
  /\ rb["A"].size >= 1
  /\ 0 <= rb["A"].count
  /\ rb["A"].count <= rb["A"].size

\* A ring that was filled, read and filled to capacity again.
C1_Witness ==
  /\ rb["A"].count = rb["A"].size
  /\ Len(rlog) > 0
  /\ Len(wlog) = Len(rlog) + rb["A"].size

\* C2: head and tail of every initialized ring are in [0, size) after every
\* call of any sequence of the ring's operations.
C2_CursorsInRange ==
  \A r \in Ring :
    /\ 0 <= rb[r].head /\ rb[r].head < rb[r].size
    /\ 0 <= rb[r].tail /\ rb[r].tail < rb[r].size

\* Both rings hold elements and have their cursors behind the start of the
\* storage: the cursors went around the end of the array.
C2_Witness ==
  \A r \in Ring :
    /\ rb[r].size = MaxSize
    /\ rb[r].count > 0
    /\ rb[r].head < rb[r].tail

\* C3 as stated: (head - tail) mod size == count after each call of the
\* non-overwriting write and read operations.
C3_Original ==
  (rb["A"].head - rb["A"].tail) % rb["A"].size = rb["A"].count

\* C3 amended: (head - tail) mod size == count mod size after each call of
\* the non-overwriting write and read operations: the difference of the
\* cursors is count on a ring that is not full and 0 on a full ring.
C3_CursorDifference ==
  (rb["A"].head - rb["A"].tail) % rb["A"].size = rb["A"].count % rb["A"].size

\* A full ring of more than one slot whose cursors meet away from index 0.
C3_Witness ==
  /\ rb["A"].size > 1
  /\ rb["A"].count = rb["A"].size
  /\ rb["A"].head = rb["A"].tail
  /\ rb["A"].head > 0

\* C4: on a ring used with the non-overwriting calls only, the elements
\* returned by successful reads are a prefix of the elements accepted by
\* successful writes, and once the ring is empty again every accepted element
\* was returned, in write order.
C4_Fifo ==
  /\ IsPrefix(rlog, wlog)
  /\ Len(wlog) - Len(rlog) = rb["A"].count
  /\ rb["A"].count = 0 => rlog = wlog

\* A ring of several slots emptied after more elements than it has slots went
\* through it (the reads crossed the end of the storage), not all equal.
C4_Witness ==
  /\ rb["A"].size > 1
  /\ rb["A"].count = 0
  /\ Len(rlog) > rb["A"].size
  /\ rlog[1] # rlog[2]

\* C5: RingBuffer_Write succeeds exactly when count < size, so from an empty
\* ring exactly size consecutive writes succeed; the write on a full ring
\* fails and leaves the ring unchanged; RingBuffer_Read on an empty ring
\* fails and leaves the ring unchanged.
C5_FullEmptyBoundary ==
  [][/\ (ret'.op = "Write" /\ rb["A"].count < rb["A"].size)
          => (ret'.val /\ rb'["A"].count = rb["A"].count + 1)
     /\ (ret'.op = "Write" /\ rb["A"].count = rb["A"].size)
          => (~ret'.val /\ rb' = rb /\ wlog' = wlog)
     /\ (ret'.op = "Read" /\ rb["A"].count = 0)
          => (~ret'.val /\ rb' = rb /\ rlog' = rlog)]_vars

\* The write that follows exactly size accepted writes on an empty ring was
\* rejected.
C5_Witness ==
  /\ ret.op = "Write"
  /\ ~ret.val
  /\ rlog = <<>>
  /\ Len(wlog) = rb["A"].size
  /\ rb["A"].count = rb["A"].size

\* C6: RingBuffer_PushFront never rejects; on a full ring it keeps count at
\* size and drops exactly the oldest element; on a ring that is not full it
\* has the effect of RingBuffer_Write; the ring always holds the last count
\* elements stored, oldest first.
C6_Overwrite ==
  /\ [](Contents("A") = LastN(wlog, rb["A"].count))
  /\ [][ret'.op = "PushFront" =>
          /\ ret'.val
          /\ rb["A"].count = rb["A"].size =>
               /\ rb'["A"].count = rb["A"].size
               /\ Contents("A")' = Tail(Contents("A")) \o <<wlog'[Len(wlog')]>>
          /\ rb["A"].count < rb["A"].size =>
               rb' = RingBuffer_Write(rb, "A", wlog'[Len(wlog')]).rb]_vars

\* A full ring of several slots after at least two overwriting pushes and no
\* read.
C6_Witness ==
  /\ ret.op = "PushFront"
  /\ rlog = <<>>
  /\ rb["A"].size > 1
  /\ rb["A"].count = rb["A"].size
  /\ Len(wlog) >= rb["A"].size + 2

\* C7: with its mutex attached, the mutating operations of any number of
\* contexts on one ring are linearized: count never exceeds size, and when
\* no call is in progress count is the number of successful writes minus
\* the number of successful reads.
C7_Original ==
  /\ rb["A"].count <= rb["A"].size
  /\ Quiescent => rb["A"].count = Len(wlog) - Len(rlog)

\* C8: with exactly one producer and one consumer running concurrently on a
\* ring with its mutex attached, the elements read are, whole and in order,
\* the first elements the producer wrote, and when no call is in progress
\* count is writes minus reads and the ring holds the elements not yet read.
C8_SingleProducerConsumer ==
  /\ IsPrefix(rlog, wlog)
  /\ rb["A"].count <= rb["A"].size
  /\ Quiescent => /\ rb["A"].count = Len(wlog) - Len(rlog)
                  /\ rlog \o Contents("A") = wlog

\* The consumer is copying an element out while the producer is inside its
\* own write, after an earlier element was already read.
C8_Witness ==
  /\ pc[Consumer] = "r_hi"
  /\ Writing(Producer)
  /\ Len(rlog) >= 1
  /\ Len(wlog) >= 3

\* C9: on a ring with no mutex, every mutating operation runs its cursor and
\* count update with interrupts disabled, so no interrupt handler's ring
\* operation is in progress while a thread is inside that update.
C9_Original ==
  \A t \in Task :
    (rb["A"].mutex = NULL /\ Mutating(t)) => (primask # 0 /\ pc[Isr] = "idle")

\* C10: every ring operation leaves the synchronization state as it found
\* it on every return path: after the call no context holds a ring's mutex,
\* and the interrupt mask has the value it had at entry.
C10_SyncStateRestored ==
  /\ [](\A m \in Ring : mtx[m] = [owner |-> NoOwner, cnt |-> 0])
  /\ [][primask' = primask]_vars

\* A transfer between rings of different element sizes returned 0 while both
\* rings had their mutex attached, and ring A had gone through its critical
\* section before (it holds elements).
C10_Witness ==
  /\ ret.op = "DumpToRing"
  /\ ret.val = 0
  /\ rb["A"].element_size # rb["B"].element_size
  /\ rb["A"].mutex # NULL
  /\ rb["B"].mutex # NULL
  /\ rb["A"].count > 0

\* C11: the release step of a critical section matches the path taken at
\* entry, whatever the global flags are by then: a thread that acquired the
\* mutex through the provider at entry has released it once its exit step
\* has run, even if the registration or the RTOS-ready flag changed in
\* between.
C11_Original ==
  [][\A c \in Task :
       (pc[c] = "m_cs" /\ pc'[c] = "m_delete") => mtx'[loc[c].h].owner # c]_vars

\* C12: when the acquisition of the ring's mutex fails, the operation
\* returns its failure result and leaves the ring as it was: no call goes on
\* into the update of head, tail or count after a failed acquisition.
C12_Original ==
  \A c \in Ctx :
    (Mutating(c) /\ rb[loc[c].ring].mutex # NULL) => loc[c].locked

\* C13: the acquisition of the mutex inside a ring operation waits for a
\* bounded time only: a call that has reached the acquisition returns,
\* even if another context holds the mutex and never releases it.
C13_Original ==
  [](pc[Producer] \in {"w_lock", "r_lock"} => <>(pc[Producer] = "idle"))

\* C14: a ring written and read with no provider and no mutex, then written
\* and read again after a provider is registered, the RTOS-ready flag set and
\* a mutex attached: every write succeeds unless the ring is full, every read
\* succeeds unless it is empty, and the elements read are, in order, the
\* elements written, those written before and read after the change included.
C14_RegimeTransition ==
  /\ [](/\ IsPrefix(rlog, wlog)
        /\ rlog \o Contents("A") = wlog)
  /\ [][/\ ret'.op = "Write" => ret'.val = (rb["A"].count < rb["A"].size)
        /\ ret'.op = "Read" => ret'.val = (rb["A"].count > 0)]_vars

\* After the change (provider registered, RTOS ready, mutex attached) a read
\* returned an element written before it and another written after it.
C14_Witness ==
  /\ loc[Main] # <<>>
  /\ Registered(reg)
  /\ rb["A"].mutex # NULL
  /\ loc[Main][2] < loc[Main][1]
  /\ ret.op = "Read"
  /\ ret.val
  /\ Len(rlog) > loc[Main][1]
  /\ rlog[Len(rlog)] # rlog[loc[Main][1]]

\* C15: after utilities_register_cs_cbs(NULL) no call invokes a provider
\* callback, and every ring operation that follows uses the interrupt-mask
\* fallback: at its critical-section entry it takes no mutex and runs with
\* interrupts masked.
C15_Original ==
  /\ [](reg.cs_callbacks = NULL => reg.cb = "none")
  /\ [][\A c \in Task :
          (reg.cs_callbacks = NULL /\ pc[c] \in {"w_lock", "r_lock"} /\ Mutating(c)')
            => (mtx' = mtx /\ primask' # 0)]_vars

\* C16: with a provider registered and the ring's mutex unset, the first
\* mutating operation calls the provider's create() at its critical-section
\* entry; on success the handle is stored in the ring and acquired for the
\* call, on failure the call runs on the interrupt-mask path.
C16_Original ==
  [][\A c \in Task :
       (/\ Registered(reg)
        /\ rb["A"].mutex = NULL
        /\ pc[c] \in {"w_lock", "r_lock"}
        /\ Mutating(c)')
         => /\ reg'.cb = "create"
            /\ rb'["A"].mutex # NULL => mtx'[rb'["A"].mutex].owner = c
            /\ rb'["A"].mutex = NULL => primask' # 0]_vars

\* C17: a ring's mutex is created at most once: however the first uses of a
\* ring without mutex interleave, the provider creates at most one mutex for
\* it, and a mutex stored in the ring is not replaced by another.
C17_Original ==
  /\ [](Cardinality(reg.created) <= 1)
  /\ [][rb["A"].mutex # NULL => rb'["A"].mutex = rb["A"].mutex]_vars

\* C18: synchronization is per instance: a call on one ring takes only that
\* ring's own mutex, and is never kept waiting at its critical-section entry
\* by a call in progress on the other ring.
C18_PerInstance ==
  \A c \in Task :
    /\ \A m \in Ring : mtx[m].owner = c => m = rb[loc[c].ring].mutex
    /\ pc[c] \in {"w_lock", "r_lock"}
         => MutexAvailable(mtx, rb[loc[c].ring].mutex, c)

\* The thread on ring A is at its critical-section entry while the thread on
\* ring B is inside its critical section, holding ring B's mutex.
C18_Witness ==
  /\ pc[Producer] \in {"w_lock", "r_lock"}
  /\ loc[Producer].ring = "A"
  /\ loc[Consumer].ring = "B"
  /\ Mutating(Consumer)
  /\ mtx[rb["B"].mutex].owner = Consumer

\* C19: RingBuffer_WriteMultiple(data, n) writes exactly min(n, free slots)
\* elements, returns that number, raises count by it and advances head by it
\* modulo size, and what it stores is the first min(n, free) elements of the
\* input, whole and in order, behind what the ring held; RingBuffer_ReadMultiple
\* (data, n) removes and returns the min(n, count) oldest elements in order;
\* neither waits for space or data: on a full ring every batch write, and on
\* an empty ring every batch read, can be made and returns 0.
C19_BatchExact ==
  /\ [][LET ring == rb["A"]
            held == Contents("A")
        IN /\ ret'.op = "WriteMultiple" =>
                LET k == Min(Len(ret'.arg), ring.size - ring.count)
                IN /\ ret'.val = k
                   /\ rb'["A"].count = ring.count + k
                   /\ rb'["A"].head = (ring.head + k) % ring.size
                   /\ rb'["A"].tail = ring.tail
                   /\ Contents("A")' = held \o SubSeq(ret'.arg, 1, k)
           /\ ret'.op = "ReadMultiple" =>
                LET k == Min(ret'.arg, ring.count)
                IN /\ ret'.val = k
                   /\ ret'.out = SubSeq(held, 1, k)
                   /\ rb'["A"].count = ring.count - k
                   /\ rb'["A"].tail = (ring.tail + k) % ring.size
                   /\ rb'["A"].head = ring.head
                   /\ Contents("A")' = SubSeq(held, k + 1, ring.count)]_vars
  /\ [](/\ rb["A"].count = rb["A"].size
             => \A d \in BatchData : ENABLED BatchWrite(d)
        /\ rb["A"].count = 0
             => \A n \in Counts : ENABLED BatchRead(n))

\* A batch of MaxBatch elements was cut to the one free slot of a ring of
\* capacity MaxCap, and that slot was the last of the backing array.
C19_Witness ==
  /\ ret.op = "WriteMultiple"
  /\ Len(ret.arg) = MaxBatch
  /\ ret.val = 1
  /\ rb["A"].size = MaxCap
  /\ rb["A"].count = MaxCap
  /\ rb["A"].head = 0
  /\ Contents("A")[MaxCap] = ret.arg[1]

\* C20: batch round trip across the wrap boundary: at every head/tail
\* position, a RingBuffer_WriteMultiple of k <= free elements into a ring that
\* then holds only those, followed by a RingBuffer_ReadMultiple of k, returns
\* exactly the written sequence and leaves the ring empty, also when the batch
\* straddles the end of the backing array and the capacity is not a multiple
\* of the batch size.
C20_BatchRoundTrip ==
  [][(/\ ret.op = "WriteMultiple"
      /\ ret.val = Len(ret.arg)
      /\ rb["A"].count = ret.val
      /\ ret'.op = "ReadMultiple"
      /\ ret'.arg = ret.val)
     => /\ ret'.val = ret.val
        /\ ret'.out = ret.arg
        /\ rb'["A"].count = 0
        /\ rb'["A"].head = rb'["A"].tail]_vars

\* A ring whose capacity is not a multiple of the batch size gave back, from
\* the last slot of the backing array and then the first, the two different
\* elements of the array last written, and is empty.
C20_Witness ==
  /\ ret.op = "ReadMultiple"
  /\ ret.arg = MaxBatch
  /\ ret.val = MaxBatch
  /\ rb["A"].size % MaxBatch # 0
  /\ rb["A"].tail + rb["A"].size - MaxBatch = rb["A"].size - 1
  /\ rb["A"].count = 0
  /\ Len(wlog) = MaxBatch
  /\ ret.out = wlog
  /\ wlog[1] # wlog[2]

C23_FailedTransferFrame ==
  [][(/\ ret'.op \in {"DumpToRing", "DumpToRingLimited"}
      /\ \/ ret'.ring = NULL
         \/ ret'.dst = NULL
         \/ rb[ret'.ring].element_size # rb[ret'.dst].element_size
         \/ rb[ret'.ring].count = 0
         \/ rb[ret'.dst].count = rb[ret'.dst].size
         \/ (ret'.op = "DumpToRingLimited" /\ ret'.max = 0))
     => (ret'.val = 0 /\ rb' = rb)]_vars

\* RingBuffer_DumpToRing returned 0 between rings of different element sizes
\* although the source held elements and the destination had room.
C23_Witness ==
  /\ ret.op = "DumpToRing"
  /\ ret.ring = "A"
  /\ ret.dst = "B"
  /\ ret.val = 0
  /\ rb["A"].element_size # rb["B"].element_size
  /\ rb["A"].count > 0
  /\ rb["B"].count < rb["B"].size

\* C24: RingBuffer_DumpToRingLimited(src, dst, max_count, preserve) copies
\* exactly min(Available(src), Free(dst), max_count) elements and returns that
\* number; with max_count >= Available(src) its effect on both rings and its
\* result are those of RingBuffer_DumpToRing.
C24_LimitedTransfer ==
  [][(/\ ret'.op = "DumpToRingLimited"
      /\ ret'.ring \in Ring
      /\ ret'.dst \in Ring \ {ret'.ring}
      /\ rb[ret'.ring].element_size = rb[ret'.dst].element_size)
     => LET s == ret'.ring
            d == ret'.dst
            k == Min(Min(rb[s].count, rb[d].size - rb[d].count), ret'.max)
            all == RingBuffer_DumpToRing(rb, s, d, ret'.preserve)
        IN /\ ret'.val = k
           /\ rb'[d].count = rb[d].count + k
           /\ Held(rb'[d]) = Held(rb[d]) \o SubSeq(Held(rb[s]), 1, k)
           /\ ret'.max >= rb[s].count => (ret'.val = all.ret /\ rb' = all.rb)]_vars

\* A limited transfer stopped at max_count = 1 although the source held more
\* and the destination still has room.
C24_Witness ==
  /\ ret.op = "DumpToRingLimited"
  /\ ret.ring = "A"
  /\ ret.dst = "B"
  /\ ret.max = 1
  /\ ret.val = 1
  /\ ~ret.preserve
  /\ rb["A"].count > 0
  /\ rb["B"].count < rb["B"].size

\* C25: during a ring-to-ring transfer both rings' critical sections are held
\* from the moment the transfer reads Available(src) / Free(dst) until it has
\* updated the cursors, so that no write or read of another context on either
\* ring takes effect in between, and once every call has returned each ring's
\* count agrees with its cursors.
C25_Original ==
  /\ \A c \in Task :
       Dumping(c) => /\ mtx[rb[loc[c].src].mutex].owner = c
                     /\ mtx[rb[loc[c].dst].mutex].owner = c
  /\ Quiescent =>
       \A r \in Ring :
         (rb[r].head + rb[r].size - rb[r].tail) % rb[r].size
           = rb[r].count % rb[r].size

\* C26: two transfers running concurrently in opposite directions between
\* the same pair of rings, each ring with its own mutex, never deadlock: under
\* fair scheduling every call that was started returns.
C26_OppositeTransfersReturn ==
  \A c \in Task : (pc[c] # "idle") ~> (pc[c] = "idle")

\* Both transfers are between ENTER_CRITICAL_SECTION and
\* EXIT_CRITICAL_SECTION at once, each thread holding one ring's mutex.
C26_Witness ==
  /\ pc[Producer] \in {"d_src", "d_dst", "d_unlock"}
  /\ pc[Consumer] \in {"d_src", "d_dst", "d_unlock"}
  /\ loc[Producer].src = loc[Consumer].dst
  /\ loc[Producer].dst = loc[Consumer].src
  /\ \E m \in Ring : mtx[m].owner = Producer
  /\ \E m \in Ring : mtx[m].owner = Consumer

\* C27: RingBuffer_Destroy leaves the structure with every field zeroed; it
\* hands the storage to free exactly when the ring holds a block it got from
\* RingBuffer_InitDynamic, and then that block only; RingBuffer_OwnsBuffer is
\* true exactly for a ring that holds such a block; storage supplied through
\* RingBuffer_Init is never handed to free, and no block is freed twice.
C27_DestroyReleasesOwned ==
  /\ [][ /\ (ret'.op = "Destroy" /\ ret'.ring \in Ring) =>
              LET r == ret'.ring
              IN /\ rb'[r] = Inert
                 /\ \A o \in Ring \ {r} : rb'[o] = rb[o]
                 /\ wlog' = wlog \ {rb[r].buffer}
                 /\ ret'.out = <<IF rb[r].buffer \in wlog THEN rb[r].buffer ELSE NULL>>
         /\ (ret'.op = "Destroy" /\ ret'.ring = NULL) => rb' = rb /\ wlog' = wlog
         /\ (ret'.op = "OwnsBuffer") =>
              ret'.val = (ret'.ring \in Ring /\ rb[ret'.ring].buffer \in wlog)
       ]_vars
  /\ [](rlog = {})

\* A ring that owned its storage has been destroyed, the block is back with
\* the allocator, and the other ring still sits on caller-supplied storage.
C27_Witness ==
  /\ ret.op = "Destroy" /\ ret.ring = "A" /\ ret.out = <<"m1">>
  /\ rb["A"] = Inert
  /\ rb["B"].buffer = Static("B")
  /\ wlog = {}
  /\ rlog = {}

\* C28: destroying a ring that has a lock handle asks the provider to destroy
\* that handle, so the handle is no longer among the created ones.
C28_Original ==
  [][(ret'.op = "Destroy" /\ ret'.ring \in Ring /\ rb[ret'.ring].mutex # NULL) =>
       /\ reg'.cb = "destroy"
       /\ reg'.created = reg.created \ {rb[ret'.ring].mutex}]_vars

\* C29: RingBuffer_InitDynamic returns false and changes neither the structure
\* nor the allocator's blocks when rb is NULL, size is 0, element_size is 0 or
\* the allocation fails; otherwise it returns true and the ring is empty, of
\* the requested size and element size, on the new block, which it owns.
C29_InitDynamicAllOrNothing ==
  [][(ret'.op = "InitDynamic") =>
       LET r == ret'.ring
           size == ret'.arg[1]
           element_size == ret'.arg[2]
           block == ret'.arg[3]
       IN IF r = NULL \/ size = 0 \/ element_size = 0 \/ block = NULL
            THEN ~ret'.val /\ rb' = rb /\ wlog' = wlog
            ELSE /\ ret'.val
                 /\ rb'[r].head = 0 /\ rb'[r].tail = 0 /\ rb'[r].count = 0
                 /\ rb'[r].size = size
                 /\ rb'[r].element_size = element_size
                 /\ rb'[r].buffer = block
                 /\ rb'[r].owns_buffer
                 /\ rb'[r].mutex = NULL
                 /\ wlog' = wlog \cup {block}
                 /\ \A o \in Ring \ {r} : rb'[o] = rb[o]]_vars

\* The allocation failed for valid arguments on a ring that was in use: the
\* call returned false and the ring is as it was.
C29_Witness ==
  /\ ret.op = "InitDynamic" /\ ret.ring = "A" /\ ~ret.val
  /\ ret.arg = <<MaxSize, 4, NULL>>
  /\ rb["A"].owns_buffer /\ rb["A"].buffer = "m1" /\ rb["A"].size = 1
  /\ wlog = {"m1"}

\* C30: RingBuffer_PeekFront returns the element at tail, the one the next
\* RingBuffer_Read returns, and RingBuffer_PeekBack the element at head - 1
\* modulo size, the last one RingBuffer_Write stored; neither changes head,
\* tail, count or the storage, and on an empty ring (or no ring) both return
\* false and store nothing in the output.
C30_PeekReadOnly ==
  [][(ret'.op \in {"PeekFront", "PeekBack"}) =>
       /\ rb' = rb
       /\ IF ret'.ring = NULL \/ rb["A"].count = 0
            THEN ~ret'.val /\ ret'.out = <<>>
            ELSE LET ring == rb["A"]
                 IN /\ ret'.val
                    /\ ret'.op = "PeekFront" =>
                         /\ ret'.out = <<Slot(ring, ring.tail)>>
                         /\ ret'.out = RingBuffer_Read(rb, "A").out
                    /\ ret'.op = "PeekBack" =>
                         /\ ret'.out = <<Slot(ring, (ring.head + ring.size - 1) % ring.size)>>
                         /\ ret'.out = <<wlog[Len(wlog)]>>]_vars

\* PeekBack on a ring whose head has wrapped to 0: the element comes from the
\* last slot, and differs from the oldest one.
C30_Witness ==
  /\ ret.op = "PeekBack" /\ ret.val
  /\ rb["A"].head = 0 /\ rb["A"].size = MaxSize /\ rb["A"].count = MaxSize
  /\ ret.out = <<Slot(rb["A"], MaxSize - 1)>>
  /\ ret.out # <<Slot(rb["A"], rb["A"].tail)>>

\* C31: a peek runs inside the ring's critical section, so while it is between
\* its emptiness test and its return the calling thread owns the ring's mutex,
\* and the element it returns is one that was written to the ring, whole.
C31_Original ==
  /\ \A c \in Task : Peeking(c) => mtx[rb[loc[c].ring].mutex].owner = c
  /\ (ret.op \in {"PeekFront", "PeekBack"} /\ ret.val) =>
       \E i \in 1..Len(wlog) : ret.out = <<wlog[i]>>

C33_Original ==
  /\ [](\A r \in Ring : rb[r].count > rb[r].size =>
          RingBuffer_Available(rb, r) = 0 /\ RingBuffer_Free(rb, r) = 0)
  /\ [][(Quiescent /\ rb["A"].count > rb["A"].size) => (Quiescent' /\ rb' = rb)]_vars

\* The rings after RingBuffer_Write of data[i], data[i + 1], .. data[Len(data)]
\* in turn.
RECURSIVE WriteEach(_, _, _, _)
WriteEach(rbs, r, data, i) ==
  IF i > Len(data) THEN rbs
  ELSE WriteEach(RingBuffer_Write(rbs, r, data[i]).rb, r, data, i + 1)

\* The rings after k calls of RingBuffer_Read and, in out, the elements they
\* returned, in order.
RECURSIVE ReadEach(_, _, _, _)
ReadEach(rbs, r, k, out) ==
  IF k = 0 THEN [rb |-> rbs, out |-> out]
  ELSE LET res == RingBuffer_Read(rbs, r)
       IN ReadEach(res.rb, r, k - 1, out \o res.out)

\* C34: RingBuffer_WriteMultiple of n elements leaves the ring (head, tail,
\* count and stored contents) as RingBuffer_Write of the first min(n, free)
\* elements one by one does, and returns that number; RingBuffer_ReadMultiple
\* of n leaves the ring and returns the elements as min(n, count) successive
\* RingBuffer_Read calls do.
C34_BatchAsSingles ==
  [][/\ (ret'.op = "WriteMultiple") =>
          LET k == Min(Len(ret'.arg), rb["A"].size - rb["A"].count)
          IN /\ ret'.val = k
             /\ rb' = WriteEach(rb, "A", SubSeq(ret'.arg, 1, k), 1)
     /\ (ret'.op = "ReadMultiple") =>
          LET k == Min(ret'.arg, rb["A"].count)
              each == ReadEach(rb, "A", k, <<>>)
          IN /\ ret'.val = k
             /\ rb' = each.rb
             /\ ret'.out = each.out]_vars

\* A batch write that went around the end of the storage and filled the
\* ring: two different elements, the first in the last slot, the second in
\* slot 0.
C34_Witness ==
  /\ ret.op = "WriteMultiple"
  /\ Len(ret.arg) = MaxBatch /\ ret.val = MaxBatch
  /\ rb["A"].size = MaxCap /\ rb["A"].head = 1 /\ rb["A"].count = MaxCap
  /\ Slot(rb["A"], MaxCap - 1) = ret.arg[MaxBatch - 1]
  /\ Slot(rb["A"], 0) = ret.arg[MaxBatch]
  /\ Slot(rb["A"], 0) # Slot(rb["A"], MaxCap - 1)

\* The rings after RingBuffer_PushFront of data[i], .. data[Len(data)] in turn.
RECURSIVE PushEach(_, _, _, _)
PushEach(rbs, r, data, i) ==
  IF i > Len(data) THEN rbs
  ELSE PushEach(RingBuffer_PushFront(rbs, r, data[i]).rb, r, data, i + 1)

\* C35: RingBuffer_PushBackOverwriteMultiple of n >= 1 elements, n larger than
\* the capacity included, returns n and leaves the ring as n successive
\* RingBuffer_PushFront calls on those elements do: count is
\* min(size, old count + n) and the ring holds, from tail on, the last count
\* elements of what it held followed by the array.
C35_OverwriteAsSingles ==
  [][(ret'.op = "PushBackOverwriteMultiple" /\ Len(ret'.arg) >= 1) =>
       LET n == Len(ret'.arg)
           k == Min(rb["A"].size, rb["A"].count + n)
       IN /\ ret'.val = n
          /\ rb' = PushEach(rb, "A", ret'.arg, 1)
          /\ rb'["A"].count = k
          /\ Held(rb'["A"]) = LastN(Held(rb["A"]) \o ret'.arg, k)]_vars

\* An array longer than the ring was pushed onto a ring that already held an
\* element: the ring is full of the array's last elements, all different.
C35_Witness ==
  /\ ret.op = "PushBackOverwriteMultiple"
  /\ Len(ret.arg) = MaxSize + 1 /\ ret.val = MaxSize + 1
  /\ rb["A"].size = MaxSize /\ rb["A"].count = MaxSize
  /\ rb["A"].tail # 0
  /\ Held(rb["A"]) = SubSeq(ret.arg, 2, MaxSize + 1)

\* C36: RingBuffer_Clear sets head, tail and count to 0: the ring is empty,
\* RingBuffer_Available is 0, RingBuffer_Free is size and the next
\* RingBuffer_Read fails; size, element_size, the storage, the ownership flag
\* and the mutex pointer are as before. From then on the ring is first in,
\* first out and holds at most size elements: what was read since the clear,
\* followed by what the ring holds, is what was written since the clear.
C36_ClearResets ==
  /\ [][ret'.op = "Clear" =>
          /\ rb'["A"] = [rb["A"] EXCEPT !.head = 0, !.tail = 0, !.count = 0]
          /\ RingBuffer_IsEmpty(rb'["A"])
          /\ RingBuffer_Available(rb', "A") = 0
          /\ RingBuffer_Free(rb', "A") = rb["A"].size
          /\ ~RingBuffer_Read(rb', "A").ret
          /\ rb'["B"] = rb["B"]]_vars
  /\ [](/\ rb["A"].count <= rb["A"].size
        /\ rlog \o Held(rb["A"]) = wlog)

\* A ring with a mutex attached was cleared after its last slot had been
\* written (the slot still holds that element), then written twice and read
\* once: it gave back the first element written after the clear, from slot 0,
\* and holds the second.
C36_Witness ==
  /\ ret.op = "Read" /\ ret.val
  /\ rb["A"].mutex # NULL
  /\ rb["A"].size = MaxCap
  /\ rb["A"].head = 2 /\ rb["A"].tail = 1
  /\ Slot(rb["A"], MaxCap - 1) # Junk
  /\ Len(wlog) = 2 /\ rlog = <<wlog[1]>>
  /\ wlog[1] # wlog[2]
  /\ Slot(rb["A"], 0) = wlog[1]

C39_CopyLoopEnds ==
  /\ [][(pc[Producer] = "d_copy" /\ wlog' # wlog) =>
          /\ loc'[Producer].copied_count > loc[Producer].copied_count
          /\ loc'[Producer].copied_count <= loc[Producer].elements_to_copy
          /\ loc'[Producer].src_tail < rb["A"].size
          /\ loc'[Producer].dst_head < rb["B"].size]_vars
  /\ [](/\ Len(wlog) <= 3
        /\ pc[Producer] \in {"d_lock", "d_src", "d_dst", "d_unlock"} =>
             loc[Producer].copied_count = loc[Producer].elements_to_copy)
  /\ (pc[Producer] = "d_copy") ~> (pc[Producer] = "d_lock")

\* A transfer of three elements that took three iterations of one element
\* each: the source wrapped after the first, the destination after the
\* second.
C39_Witness ==
  /\ pc[Producer] = "d_lock"
  /\ wlog = <<1, 1, 1>>
  /\ loc[Producer].copied_count = 3
  /\ loc[Producer].src_tail = 2
  /\ loc[Producer].dst_head = 1

\* Every field of the instance is zero.
Zeroed(ring) ==
  /\ ring.size = 0
  /\ ring.count = 0
  /\ ring.head = 0
  /\ ring.tail = 0
  /\ ring.element_size = 0
  /\ ~ring.owns_buffer
  /\ ring.mutex = NULL
  /\ ring.buffer = NULL

BoolCalls == {"Write", "Read", "PopFront", "PopBack", "PeekFront", "PeekBack"}
CountCalls == {"WriteMultiple", "ReadMultiple", "PopFrontMultiple",
               "PopBackMultiple", "PeekFrontMultiple", "PeekBackMultiple",
               "DumpToRing", "DumpToRingLimited"}

\* C40: a ring that was destroyed and not initialized since has every field
\* zero, and each non-overwriting call given it (Write, Read, WriteMultiple,
\* ReadMultiple, the pops, the peeks, a transfer with it as source or as
\* destination) returns false or 0, hands nothing to the caller and changes no
\* ring and no mutex.
C40_DestroyedRejects ==
  /\ [](\A r \in rlog : Zeroed(rb[r]))
  /\ [][(/\ ret'.op \in BoolCalls \cup CountCalls
         /\ {ret'.ring, ret'.peer} \cap rlog # {}) =>
          /\ ret'.op \in BoolCalls => ret'.val = FALSE
          /\ ret'.op \in CountCalls => ret'.val = 0
          /\ ret'.out = <<>>
          /\ rb' = rb
          /\ mtx' = mtx
          /\ rlog' = rlog]_vars

\* Ring A was written, its element moved to ring B, and ring A destroyed: a
\* transfer from B back to the destroyed ring A moved nothing.
C40_Witness ==
  /\ "A" \in rlog
  /\ "B" \notin rlog
  /\ rb["B"].count = 1
  /\ Slot(rb["B"], 0) = MaxVal
  /\ ret.op = "DumpToRing"
  /\ ret.ring = "B"
  /\ ret.peer = "A"
  /\ ret.val = 0

====
